---- MODULE Spec2Model ----
(***************************************************************************)
(* A model of the IGP2 planning stack: the MCTS search Node                *)
(* (igp2/planning/node.py), the macro-action library                       *)
(* (igp2/planlibrary/macro_action.py), MacroAgent.update_macro_action      *)
(* (igp2/agent.py), and selection and backup at a Node as the              *)
(* specification words them (mcts.py and policy.py).                       *)
(*                                                                         *)
(* The module holds one state machine per component.  Every component has  *)
(* its own variables, its own initial predicate and its own next-state     *)
(* relation; a component that a specification does not run keeps the       *)
(* value "idle" in its variables.                                          *)
(*                                                                         *)
(* Python's None is the empty sequence and a present value x is <<x>>,     *)
(* so that an optional value is always a sequence.                         *)
(***************************************************************************)
EXTENDS Integers, Sequences, FiniteSets, TLC

VARIABLES
    component,        \* which component this behaviour runs
    \* ---- Node (node.py) ----
    actions,          \* Node._actions: None or the list of applicable actions
    q_values,         \* Node._q_values: None or an array
    action_visits,    \* Node._action_visits: None or an array
    state_visits,     \* Node._state_visits
    children,         \* Node._children: the keys of the children dictionary
    node_ret,         \* outcome of the last Node operation
    \* ---- ChangeLane.get_maneuvers, statement by statement ----
    cl_in,            \* the call's inputs: self.left, self.open_loop, CHECK_ONCOMING, the frame
    cl_pc,            \* the position in get_maneuvers
    oncoming_intervals, \* the sorted list of (start, end, d_distance)
    d_change,         \* the switch length being tried
    t_start,          \* the start time found by the last pass over the intervals
    cl_frame,         \* the local variable frame
    cl_maneuvers,     \* the local list maneuvers
    cl_final_frame,   \* self.final_frame
    \* ---- a MacroAction object ----
    ma_kind,          \* the class of the macro action
    open_loop,        \* MacroAction.open_loop
    maneuvers,        \* MacroAction._maneuvers
    current_maneuver, \* MacroAction._current_maneuver
    final_frame,      \* MacroAction.final_frame
    ma_ret,           \* outcome of the last call
    \* ---- the applicability checks of ChangeLane ----
    va_in,            \* the agent state and the map, as the checks read them
    va_ret,           \* the last check made and what it returned
    \* ---- MacroAction.play_forward_macro_action, statement by statement ----
    pf_in,            \* agent_id, scenario_map, frame, macro_action
    pf_pc,            \* the position in the function
    pf_new_frame,     \* new_frame, and at the end the frame returned
    pf_pending,       \* the items of frame the for loop has still to visit
    pf_aid,           \* aid: the agent being advanced
    pf_lane,          \* _lane_at_distance: current_lane
    pf_total,         \* _lane_at_distance: total_length
    pf_ds,            \* _lane_at_distance: ds
    pf_run,           \* which call on the same arguments this is: 1 or 2
    pf_first,         \* None, or how the first call ended and what it returned
    \* ---- Exit._nearest_lane_to_goal, statement by statement ----
    nl_in,            \* lane_list, by the distance of each lane's endpoint to turn_target
    nl_pc,            \* the position in the function
    nl_i,             \* the index of the lane the for loop visits next
    best_lane,        \* best_lane: None or the index of a lane of lane_list
    best_distance,    \* best_distance: np.inf (the empty sequence) or a distance
    nl_ret,           \* the value returned
    \* ---- MacroAction.get_applicable_actions, statement by statement ----
    ga_in,            \* agent_state and scenario_map, as the applicable predicates read them
    ga_pc,            \* the position in the function
    ga_pending,       \* the subclasses the for loop has still to visit
    ga_actions,       \* the local list actions, as a set
    \* ---- Exit.get_possible_args and MacroAgent.update_macro_action ----
    pa_in,            \* the agent state, the map and the goal, as the two functions read them
    pa_pc,            \* the position in the two functions
    pa_lanes,         \* the lanes the for loop of get_possible_args has still to visit
    targets,          \* the local list targets
    possible_args,    \* update_macro_action: possible_args, by their turn_target
    current_macro,    \* MacroAgent._current_macro: None or the turn_target of the Exit
    \* ---- the statistics of one expanded Node under MCTS selection and backup ----
    mc_pc,            \* the step of the search iteration
    Q,                \* the node's q_values, as fractions
    actionVisits,     \* the node's action_visits
    visits,           \* the node's state_visits
    mc_selected,      \* the index of the action the exploration policy selected
    mc_rewards,       \* for each action, the rewards backed up for it so far
    mc_dead,          \* the actions whose child node has no applicable action
    mc_selections,    \* for each action, how often it was selected
    mc_recommendation, \* None, or the action the finished search recommends
    \* ---- MacroAction.get_trajectory, statement by statement ----
    tr_in,            \* self.open_loop and the trajectories of self._maneuvers
    tr_pc,            \* the position in the function
    tr_pending,       \* the maneuvers the for loop has still to visit
    points,           \* the local variable points: None or an array
    velocity,         \* the local variable velocity: None or an array
    \* ---- TrajectoryAgent ----
    ta_open_loop,     \* self._open_loop
    ta_t,             \* self._t
    ta_trajectory,    \* self._trajectory: None or the trajectory, by its number of samples
    ta_alive,         \* self._alive
    ta_vehicle,       \* self._vehicle: new, or one that has executed an action
    ta_maneuver_config, \* self._maneuver_config: None or the trajectory it ends
    ta_maneuver,      \* self._maneuver: None or the trajectory it follows
    ta_ret,           \* the last call and how it ended
    \* ---- ChangeLane._get_lane_sequence ----
    sq_in,            \* state, current_lane, threshold and the map's answers
    sq_pc,            \* the position in the function
    sq_current_lane,  \* current_lane: a lane, or 0 for None
    sq_distance,      \* distance
    sq_ls,           \* ls: the target lanes collected
    \* ---- TrafficManager ----
    tm_n_agents,      \* self.__n_agents
    tm_agents         \* self.__agents, in the order of the agent ids: an agent (TRUE) or None (FALSE)

nodeVars == <<actions, q_values, action_visits, state_visits, children, node_ret>>

NodeIdle ==
    /\ actions = "idle" /\ q_values = "idle" /\ action_visits = "idle"
    /\ state_visits = "idle" /\ children = "idle" /\ node_ret = "idle"

clVars == <<cl_in, cl_pc, oncoming_intervals, d_change, t_start, cl_frame,
           cl_maneuvers, cl_final_frame>>

ClIdle ==
    /\ cl_in = "idle" /\ cl_pc = "idle" /\ oncoming_intervals = "idle"
    /\ d_change = "idle" /\ t_start = "idle" /\ cl_frame = "idle"
    /\ cl_maneuvers = "idle" /\ cl_final_frame = "idle"

maVars == <<ma_kind, open_loop, maneuvers, current_maneuver, final_frame, ma_ret>>

MaIdle ==
    /\ ma_kind = "idle" /\ open_loop = "idle" /\ maneuvers = "idle"
    /\ current_maneuver = "idle" /\ final_frame = "idle" /\ ma_ret = "idle"

vaVars == <<va_in, va_ret>>

VaIdle == va_in = "idle" /\ va_ret = "idle"

pfVars == <<pf_in, pf_pc, pf_new_frame, pf_pending, pf_aid, pf_lane, pf_total, pf_ds,
           pf_run, pf_first>>

PfIdle ==
    /\ pf_in = "idle" /\ pf_pc = "idle" /\ pf_new_frame = "idle" /\ pf_pending = "idle"
    /\ pf_aid = "idle" /\ pf_lane = "idle" /\ pf_total = "idle" /\ pf_ds = "idle"
    /\ pf_run = "idle" /\ pf_first = "idle"

nlVars == <<nl_in, nl_pc, nl_i, best_lane, best_distance, nl_ret>>

NlIdle ==
    /\ nl_in = "idle" /\ nl_pc = "idle" /\ nl_i = "idle" /\ best_lane = "idle" /\ best_distance = "idle" /\ nl_ret = "idle"

gaVars == <<ga_in, ga_pc, ga_pending, ga_actions>>

GaIdle ==
    /\ ga_in = "idle" /\ ga_pc = "idle" /\ ga_pending = "idle" /\ ga_actions = "idle"

paVars == <<pa_in, pa_pc, pa_lanes, targets, possible_args, current_macro>>

PaIdle ==
    /\ pa_in = "idle" /\ pa_pc = "idle" /\ pa_lanes = "idle" /\ targets = "idle" /\ possible_args = "idle" /\ current_macro = "idle"

mcVars == <<mc_pc, Q, actionVisits, visits, mc_selected, mc_rewards, mc_dead,
           mc_selections, mc_recommendation>>

McIdle ==
    /\ mc_pc = "idle" /\ Q = "idle" /\ actionVisits = "idle" /\ visits = "idle" /\ mc_selected = "idle" /\ mc_rewards = "idle"
    /\ mc_dead = "idle" /\ mc_selections = "idle" /\ mc_recommendation = "idle"

trVars == <<tr_in, tr_pc, tr_pending, points, velocity>>

TrIdle ==
    /\ tr_in = "idle" /\ tr_pc = "idle" /\ tr_pending = "idle" /\ points = "idle" /\ velocity = "idle"

taVars == <<ta_open_loop, ta_t, ta_trajectory, ta_alive, ta_vehicle, ta_maneuver_config, ta_maneuver, ta_ret>>

TaIdle ==
    /\ ta_open_loop = "idle" /\ ta_t = "idle" /\ ta_trajectory = "idle" /\ ta_alive = "idle" /\ ta_vehicle = "idle" /\ ta_maneuver_config = "idle" /\ ta_maneuver = "idle" /\ ta_ret = "idle"

sqVars == <<sq_in, sq_pc, sq_current_lane, sq_distance, sq_ls>>

SqIdle ==
    /\ sq_in = "idle" /\ sq_pc = "idle" /\ sq_current_lane = "idle" /\ sq_distance = "idle" /\ sq_ls = "idle"

tmVars == <<tm_n_agents, tm_agents>>

TmIdle ==
    /\ tm_n_agents = "idle" /\ tm_agents = "idle"

vars == <<component, nodeVars, clVars, maVars, vaVars, pfVars, nlVars, gaVars, paVars, mcVars, trVars, taVars, sqVars, tmVars>>

\* What the actions of one component leave alone.
notNode == <<component, clVars, maVars, vaVars, pfVars, nlVars, gaVars, paVars, mcVars, trVars, taVars, sqVars, tmVars>>
notCl == <<component, nodeVars, maVars, vaVars, pfVars, nlVars, gaVars, paVars, mcVars, trVars, taVars, sqVars, tmVars>>
notMa == <<component, nodeVars, clVars, vaVars, pfVars, nlVars, gaVars, paVars, mcVars, trVars, taVars, sqVars, tmVars>>
notVa == <<component, nodeVars, clVars, maVars, pfVars, nlVars, gaVars, paVars, mcVars, trVars, taVars, sqVars, tmVars>>
notPf == <<component, nodeVars, clVars, maVars, vaVars, nlVars, gaVars, paVars, mcVars, trVars, taVars, sqVars, tmVars>>
notNl == <<component, nodeVars, clVars, maVars, vaVars, pfVars, gaVars, paVars, mcVars, trVars, taVars, sqVars, tmVars>>
notGa == <<component, nodeVars, clVars, maVars, vaVars, pfVars, nlVars, paVars, mcVars, trVars, taVars, sqVars, tmVars>>
notPa == <<component, nodeVars, clVars, maVars, vaVars, pfVars, nlVars, gaVars, mcVars, trVars, taVars, sqVars, tmVars>>
notMc == <<component, nodeVars, clVars, maVars, vaVars, pfVars, nlVars, gaVars, paVars, trVars, taVars, sqVars, tmVars>>
notTr == <<component, nodeVars, clVars, maVars, vaVars, pfVars, nlVars, gaVars, paVars, mcVars, taVars, sqVars, tmVars>>
notTa == <<component, nodeVars, clVars, maVars, vaVars, pfVars, nlVars, gaVars, paVars, mcVars, trVars, sqVars, tmVars>>
notSq == <<component, nodeVars, clVars, maVars, vaVars, pfVars, nlVars, gaVars, paVars, mcVars, trVars, taVars, tmVars>>
notTm == <<component, nodeVars, clVars, maVars, vaVars, pfVars, nlVars, gaVars, paVars, mcVars, trVars, taVars, sqVars>>

None == <<>>
Some(x) == <<x>>
IsNone(o) == o = <<>>
TheVal(o) == o[1]

Abs(a) == IF a >= 0 THEN a ELSE -a

(***************************************************************************)
(* Bounds of the model.                                                    *)
(***************************************************************************)
MaxActions == 2
MaxVisits == 2
MaxChildren == 2

(***************************************************************************)
(*                               Node                                      *)
(***************************************************************************)
\* The lists of applicable actions a Node is built with (an action is named by
\* its position), and None: the constructor accepts actions = None.
ActionLists == {[i \in 1..n |-> i] : n \in 0..MaxActions}

\* np.zeros(n)
Zeros(n) == [i \in 1..n |-> 0]

\* The arrays a caller can hand to the q_values setter: any length, not only
\* len(actions).
QArrays == UNION {[1..n -> 0..1] : n \in 0..(MaxActions + 1)}

\* Node.__init__ with a tuple key (any other key raises TypeError and builds no
\* node).
NodeInit ==
    /\ component = "node"
    /\ actions \in {None} \cup {Some(a) : a \in ActionLists}
    /\ q_values = None
    /\ action_visits = None
    /\ state_visits = 0
    /\ children = {}
    /\ node_ret = "constructed"
    /\ ClIdle /\ MaIdle /\ VaIdle /\ PfIdle /\ NlIdle /\ GaIdle /\ PaIdle /\ McIdle /\ TrIdle /\ TaIdle /\ SqIdle /\ TmIdle

\* Node.expand
expand ==
    /\ component = "node"
    /\ IF IsNone(actions)
       THEN /\ node_ret' = "TypeError"
            /\ UNCHANGED <<notNode, actions, q_values, action_visits, state_visits, children>>
       ELSE /\ q_values' = Some(Zeros(Len(TheVal(actions))))
            /\ action_visits' = Some(Zeros(Len(TheVal(actions))))
            /\ node_ret' = "expanded"
            /\ UNCHANGED <<notNode, actions, state_visits, children>>

\* Node.add_child: self._children[child.key] = child
add_child(key) ==
    /\ component = "node"
    /\ children' = children \cup {key}
    /\ node_ret' = "child"
    /\ UNCHANGED <<notNode, actions, q_values, action_visits, state_visits>>

\* Node.q_values setter: self._q_values = value
set_q_values(value) ==
    /\ component = "node"
    /\ q_values' = Some(value)
    /\ node_ret' = "set_q_values"
    /\ UNCHANGED <<notNode, actions, action_visits, state_visits, children>>

\* Node.state_visits setter: self._state_visits = value
set_state_visits(value) ==
    /\ component = "node"
    /\ state_visits' = value
    /\ node_ret' = "set_state_visits"
    /\ UNCHANGED <<notNode, actions, q_values, action_visits, children>>

NodeNext ==
    \/ expand
    \/ \E key \in 1..MaxChildren : add_child(key)
    \/ \E value \in QArrays : set_q_values(value)
    \/ \E value \in 0..MaxVisits : set_state_visits(value)

SpecNode == NodeInit /\ [][NodeNext]_vars

\* The node is unexpanded: no Q array and no visit array.
Unexpanded == IsNone(q_values) /\ IsNone(action_visits)

\* The node is expanded: both arrays exist and are sized to the action list.
Expanded ==
    /\ ~IsNone(actions) /\ ~IsNone(q_values) /\ ~IsNone(action_visits)
    /\ Len(TheVal(q_values)) = Len(TheVal(actions))
    /\ Len(TheVal(action_visits)) = Len(TheVal(actions))

\* C1: in every reachable state a Node is either unexpanded (q_values and
\* action_visits both absent) or expanded with
\* len(q_values) = len(action_visits) = len(actions).
C1_NodeShape == Unexpanded \/ Expanded

(***************************************************************************)
(*                      ChangeLane.get_maneuvers                           *)
(*                                                                         *)
(* Lengths and speeds are integers.  Times are quotients of them, kept as  *)
(* exact fractions <<numerator, denominator>> with a positive denominator, *)
(* so that the comparisons of the gap search are those of the code up to   *)
(* floating-point rounding.                                                *)
(***************************************************************************)
RLt(a, b) == a[1] * b[2] < b[1] * a[2]
RLe(a, b) == a[1] * b[2] <= b[1] * a[2]
RAdd(a, b) == <<a[1] * b[2] + b[1] * a[2], a[2] * b[2]>>
RZero == <<0, 1>>
RMax(a, b) == IF RLt(a, b) THEN b ELSE a

\* SwitchLane.TARGET_SWITCH_LENGTH and SwitchLane.MIN_SWITCH_LENGTH
TARGET_SWITCH_LENGTH == 20
MIN_SWITCH_LENGTH == 5
\* d_change -= 5
SWITCH_LENGTH_STEP == 5

\* The most other agents of a frame.
MaxOthers == 2

\* An agent of the frame other than the ego: its speed, the projection of its
\* position on the target midline, and whether one of its lanes is in the
\* target lane sequence.
EgoSpeeds == {5, 10}
OtherSpeeds == {0, 5, 10}
EgoPositions == {20}
OtherPositions == {8, 17, 23, 32}
MidlineLengths == {30, 60, 100}
OtherAgents == [speed : OtherSpeeds, pos : OtherPositions, on_target : BOOLEAN]
OtherLists == UNION {[1..n -> OtherAgents] : n \in 0..MaxOthers}

\* A maneuver, by its class and the "type" of the ManeuverConfig it was built
\* from.
Man(cls, type) == [cls |-> cls, type |-> type]

\* Maneuver.play_forward_maneuver: the frame after a maneuver.  A frame is
\* named by the maneuvers played forward from the start frame, which is <<>>.
PlayForwardManeuver(frame, man) == Append(frame, man)

\* One agent's interval (lines 358-374), for d_speed # 0.
IntervalOf(speed, pos, agent) ==
    LET d_speed == speed - agent.speed
        d_distance == agent.pos - pos
        sgn == IF d_speed > 0 THEN 1 ELSE -1
        den == Abs(d_speed)
        \* time_until_pass = d_distance / d_speed, pass_time = |MIN / d_speed|
        interval_end_time == <<sgn * d_distance + MIN_SWITCH_LENGTH, den>>
        interval_start_time == RMax(RZero, <<sgn * d_distance - MIN_SWITCH_LENGTH, den>>)
    IN  [start |-> interval_start_time, end |-> interval_end_time, d |-> d_distance]

\* sorted(..., key=lambda period: period[0]) is stable: x goes after every
\* element whose start is not later than its own.
RECURSIVE SortedInsert(_, _)
SortedInsert(ivs, x) ==
    IF ivs = <<>> THEN <<x>>
    ELSE IF RLt(x.start, Head(ivs).start) THEN <<x>> \o ivs
    ELSE <<Head(ivs)>> \o SortedInsert(Tail(ivs), x)

RECURSIVE SortByStart(_)
SortByStart(ivs) ==
    IF ivs = <<>> THEN <<>>
    ELSE SortedInsert(SortByStart(SubSeq(ivs, 1, Len(ivs) - 1)), ivs[Len(ivs)])

\* The agents that count: on the target lane sequence (line 357).
RECURSIVE CollectIntervals(_, _, _)
CollectIntervals(speed, pos, others) ==
    IF others = <<>> THEN <<>>
    ELSE LET agent == Head(others)
             rest == CollectIntervals(speed, pos, Tail(others))
             iv == IntervalOf(speed, pos, agent)
         IN  IF ~agent.on_target \/ speed = agent.speed THEN rest
             ELSE IF RLt(RZero, iv.end) THEN <<iv>> \o rest
             ELSE rest

\* Line 363-365: an agent of the target lanes with the ego's speed and closer
\* than MIN_SWITCH_LENGTH raises RuntimeError.
BlockedBySameSpeed(speed, pos, others) ==
    \E i \in 1..Len(others) :
        /\ others[i].on_target
        /\ others[i].speed = speed
        /\ Abs(others[i].pos - pos) < MIN_SWITCH_LENGTH

\* ChangeLane._get_oncoming_vehicle_intervals, when it does not raise.
GetOncomingVehicleIntervals(speed, pos, others) ==
    SortByStart(CollectIntervals(speed, pos, others))

\* Line 311: the interval is in the way of a change of length d that starts at ts.
Conflicts(iv, ts, d, speed) ==
    /\ Abs(iv.d) < d
    /\ RLt(ts, iv.end)
    /\ RLt(iv.start, RAdd(ts, <<d, speed>>))

\* Lines 309-312: one pass over the sorted intervals.
RECURSIVE FirstFreeTime(_, _, _, _)
FirstFreeTime(ivs, ts, d, speed) ==
    IF ivs = <<>> THEN ts
    ELSE FirstFreeTime(Tail(ivs),
                       IF Conflicts(Head(ivs), ts, d, speed) THEN Head(ivs).end ELSE ts,
                       d, speed)

\* Line 304: t_lane_end
LaneEndTime(in) == <<in.length - in.pos, in.speed>>

\* Line 314 with > for >=: a change that ends as the lane ends is accepted.
TooLateStrict(ts, d, in) == RLt(LaneEndTime(in), RAdd(ts, <<d, in.speed>>))

\* Line 314: t_start + t_change >= t_lane_end
TooLate(ts, d, in) == RLe(LaneEndTime(in), RAdd(ts, <<d, in.speed>>))

\* The inputs of a call: the ego's state, the frame's other agents, the
\* target midline's length, and the flags.
\* The other agents are of no account to a closed-loop call.
ClInputs ==
    {in \in [left : BOOLEAN, open_loop : BOOLEAN, check : BOOLEAN, speed : EgoSpeeds,
             pos : EgoPositions, length : MidlineLengths, others : OtherLists] :
        in.open_loop \/ in.others = <<>>}

ClInit ==
    /\ component = "change_lane"
    /\ cl_in \in ClInputs
    /\ cl_pc = "get_maneuvers"
    /\ oncoming_intervals = <<>>
    /\ d_change = 0
    /\ t_start = RZero
    /\ cl_frame = <<>>
    /\ cl_maneuvers = <<>>
    /\ cl_final_frame = None
    /\ NodeIdle /\ MaIdle /\ VaIdle /\ PfIdle /\ NlIdle /\ GaIdle /\ PaIdle /\ McIdle /\ TrIdle /\ TaIdle /\ SqIdle /\ TmIdle

\* Lines 289-303: closed loop returns the empty list; open loop sets d_change
\* and, with CHECK_ONCOMING, computes the intervals.
cl_enter ==
    /\ component = "change_lane"
    /\ cl_pc = "get_maneuvers"
    /\ IF ~cl_in.open_loop
       THEN /\ cl_pc' = "returned"
            /\ UNCHANGED <<d_change, oncoming_intervals>>
       ELSE /\ d_change' = TARGET_SWITCH_LENGTH
            /\ IF ~cl_in.check
               THEN /\ cl_pc' = "switch"
                    /\ UNCHANGED oncoming_intervals
               ELSE IF BlockedBySameSpeed(cl_in.speed, cl_in.pos, cl_in.others)
               THEN /\ cl_pc' = "RuntimeError"
                    /\ UNCHANGED oncoming_intervals
               ELSE /\ cl_pc' = "search"
                    /\ oncoming_intervals' =
                           GetOncomingVehicleIntervals(cl_in.speed, cl_in.pos, cl_in.others)
    /\ UNCHANGED <<notCl, cl_in, t_start, cl_frame, cl_maneuvers, cl_final_frame>>

\* Lines 307-317: one iteration of the while loop.
cl_search ==
    /\ component = "change_lane"
    /\ cl_pc = "search"
    /\ d_change >= MIN_SWITCH_LENGTH
    /\ t_start' = FirstFreeTime(oncoming_intervals, RZero, d_change, cl_in.speed)
    /\ IF TooLate(t_start', d_change, cl_in)
       THEN /\ d_change' = d_change - SWITCH_LENGTH_STEP
            /\ UNCHANGED cl_pc
       ELSE /\ cl_pc' = "follow"
            /\ UNCHANGED d_change
    /\ UNCHANGED <<notCl, cl_in, oncoming_intervals, cl_frame, cl_maneuvers, cl_final_frame>>

\* Lines 318-319: the loop's else branch.
cl_search_exhausted ==
    /\ component = "change_lane"
    /\ cl_pc = "search"
    /\ d_change < MIN_SWITCH_LENGTH
    /\ cl_pc' = "AssertionError"
    /\ UNCHANGED <<notCl, cl_in, oncoming_intervals, d_change, t_start, cl_frame,
                   cl_maneuvers, cl_final_frame>>

\* Lines 322-333: follow the lane until the target lane is clear.
cl_follow ==
    /\ component = "change_lane"
    /\ cl_pc = "follow"
    /\ IF RLt(RZero, t_start)
       THEN LET man == Man("FollowLane", "follow-lane")
            IN  /\ cl_maneuvers' = Append(cl_maneuvers, man)
                /\ cl_frame' = PlayForwardManeuver(cl_frame, man)
       ELSE UNCHANGED <<cl_maneuvers, cl_frame>>
    /\ cl_pc' = "switch"
    /\ UNCHANGED <<notCl, cl_in, oncoming_intervals, d_change, t_start, cl_final_frame>>

\* Line 337: "switch-" + "left" if self.left else "right" is
\* ("switch-" + "left") if self.left else "right".
SwitchConfigType(left) == IF left THEN "switch-left" ELSE "right"

\* Lines 342-345
SwitchManeuver(left) ==
    Man(IF left THEN "SwitchLaneLeft" ELSE "SwitchLaneRight", SwitchConfigType(left))

\* Lines 336-347: the switch-lane maneuver and the final frame.
cl_switch ==
    /\ component = "change_lane"
    /\ cl_pc = "switch"
    /\ cl_maneuvers' = Append(cl_maneuvers, SwitchManeuver(cl_in.left))
    /\ cl_final_frame' = Some(PlayForwardManeuver(cl_frame, SwitchManeuver(cl_in.left)))
    /\ cl_pc' = "returned"
    /\ UNCHANGED <<notCl, cl_in, oncoming_intervals, d_change, t_start, cl_frame>>

ClNext ==
    \/ cl_enter
    \/ cl_search
    \/ cl_search_exhausted
    \/ cl_follow
    \/ cl_switch

SpecChangeLane == ClInit /\ [][ClNext]_vars

(***************************************************************************)
(*                        The MacroAction object                           *)
(***************************************************************************)
\* Exit.GIVE_WAY_DISTANCE
GIVE_WAY_DISTANCE == 10
\* Maneuver.POINT_SPACING, taken as the unit of length of Exit's distances
POINT_SPACING == 1

\* The construction results: the object's fields, or the exception raised.
Built(mans, ff) == [outcome |-> "ok", maneuvers |-> mans, final_frame |-> ff]
Raised(exc) == [outcome |-> exc, maneuvers |-> <<>>, final_frame |-> None]

\* The frame after playing forward each maneuver of a list in turn.
RECURSIVE PlayForwardAll(_, _)
PlayForwardAll(frame, mans) ==
    IF mans = <<>> THEN frame
    ELSE PlayForwardAll(PlayForwardManeuver(frame, Head(mans)), Tail(mans))

\* Lines 307-319 as one function: the accepted (d_change, t_start), or the
\* failed assertion.
RECURSIVE GapSearch(_, _, _)
GapSearch(d, in, ivs) ==
    IF d < MIN_SWITCH_LENGTH
    THEN [found |-> FALSE, d_change |-> d, t_start |-> RZero]
    ELSE LET ts == FirstFreeTime(ivs, RZero, d, in.speed)
         IN  IF TooLate(ts, d, in)
             THEN GapSearch(d - SWITCH_LENGTH_STEP, in, ivs)
             ELSE [found |-> TRUE, d_change |-> d, t_start |-> ts]

\* Continue.get_maneuvers.  sc.lane_found: best_lane_at finds a lane;
\* sc.tp_given: a termination point was passed.
ContinueGetManeuvers(ol, sc) ==
    IF ~ol THEN Built(<<>>, None)
    ELSE IF ~sc.lane_found /\ ~sc.tp_given THEN Raised("AttributeError")
    ELSE IF ~sc.lane_found THEN Raised("GeometryUnavailable")
    ELSE LET mans == <<Man("FollowLane", "follow-lane")>>
         IN  Built(mans, Some(PlayForwardManeuver(<<>>, mans[Len(mans)])))

\* ContinueNextExit.get_maneuvers.  sc.successor: whether the current lane's
\* link.successor is None.
ContinueNextExitGetManeuvers(ol, sc) ==
    IF ~ol THEN Built(<<>>, None)
    ELSE IF ~sc.lane_found THEN Raised("AttributeError")
    ELSE IF sc.successor = "None" THEN Raised("TypeError")
    ELSE LET man1 == Man("FollowLane", "follow-lane")
             frame == PlayForwardManeuver(<<>>, man1)
             man2 == Man("Turn", "turn")
         IN  Built(<<man1, man2>>, Some(PlayForwardManeuver(frame, man2)))

\* ChangeLane.get_maneuvers, as the function the statements of SpecChangeLane
\* compute.  sc.target_found: _get_lane_sequence returns a non-empty list.
ChangeLaneGetManeuvers(left, ol, sc) ==
    IF ~sc.lane_found THEN Raised("AttributeError")
    ELSE IF ~sc.target_found THEN Raised("IndexError")
    ELSE IF ~ol THEN Built(<<>>, None)
    ELSE IF ~sc.gap.check
    THEN Built(<<SwitchManeuver(left)>>,
               Some(PlayForwardManeuver(<<>>, SwitchManeuver(left))))
    ELSE IF BlockedBySameSpeed(sc.gap.speed, sc.gap.pos, sc.gap.others)
    THEN Raised("RuntimeError")
    ELSE LET ivs == GetOncomingVehicleIntervals(sc.gap.speed, sc.gap.pos, sc.gap.others)
             found == GapSearch(TARGET_SWITCH_LENGTH, sc.gap, ivs)
             follow == IF RLt(RZero, found.t_start)
                       THEN <<Man("FollowLane", "follow-lane")>> ELSE <<>>
             mans == follow \o <<SwitchManeuver(left)>>
         IN  IF ~found.found THEN Raised("AssertionError")
             ELSE Built(mans, Some(PlayForwardAll(<<>>, mans)))

\* Line 507 with current_lane taken when no connecting lane is found
ExitGetManeuversDefaulted(ol, sc) ==
    IF ~sc.lane_found THEN Raised("AttributeError")
    ELSE IF ~ol THEN Built(<<>>, None)
    ELSE IF sc.in_junction
    THEN Built(<<Man("Turn", "turn")>>, Some(PlayForwardManeuver(<<>>, Man("Turn", "turn"))))
    ELSE LET follow == IF sc.remaining > GIVE_WAY_DISTANCE + POINT_SPACING
                       THEN <<Man("FollowLane", "follow-lane")>> ELSE <<>>
             mans == follow \o <<Man("GiveWay", "give-way"), Man("Turn", "turn")>>
         IN  Built(mans, Some(PlayForwardAll(<<>>, mans)))

\* Line 498 without Maneuver.POINT_SPACING
ExitGetManeuversNoSpacing(ol, sc) ==
    IF ~sc.lane_found THEN Raised("AttributeError")
    ELSE IF ~ol THEN Built(<<>>, None)
    ELSE IF sc.in_junction
    THEN Built(<<Man("Turn", "turn")>>, Some(PlayForwardManeuver(<<>>, Man("Turn", "turn"))))
    ELSE IF sc.connecting = "no_successor" THEN Raised("TypeError")
    ELSE IF sc.connecting = "none_in_threshold" THEN Raised("AttributeError")
    ELSE LET follow == IF sc.remaining > GIVE_WAY_DISTANCE
                       THEN <<Man("FollowLane", "follow-lane")>> ELSE <<>>
             mans == follow \o <<Man("GiveWay", "give-way"), Man("Turn", "turn")>>
         IN  Built(mans, Some(PlayForwardAll(<<>>, mans)))

\* Exit.get_maneuvers.  sc.in_junction: junction_at finds a junction;
\* sc.lane_found: _find_current_lane finds a lane; sc.remaining: the current
\* lane's length minus the agent's distance along it; sc.connecting: what
\* _find_connecting_lane meets.
ExitGetManeuvers(ol, sc) ==
    IF ~sc.lane_found THEN Raised("AttributeError")
    ELSE IF ~ol THEN Built(<<>>, None)
    ELSE IF sc.in_junction
    THEN Built(<<Man("Turn", "turn")>>, Some(PlayForwardManeuver(<<>>, Man("Turn", "turn"))))
    ELSE IF sc.connecting = "no_successor" THEN Raised("TypeError")
    ELSE IF sc.connecting = "none_in_threshold" THEN Raised("AttributeError")
    ELSE LET follow == IF sc.remaining > GIVE_WAY_DISTANCE + POINT_SPACING
                       THEN <<Man("FollowLane", "follow-lane")>> ELSE <<>>
             mans == follow \o <<Man("GiveWay", "give-way"), Man("Turn", "turn")>>
         IN  Built(mans, Some(PlayForwardAll(<<>>, mans)))

MacroKinds == {"Continue", "ContinueNextExit", "ChangeLaneLeft", "ChangeLaneRight", "Exit"}

\* The gap-search inputs a macro action is built from here: at most one other
\* agent, and none where CHECK_ONCOMING is off.
MacroGapInputs ==
    {in \in ClInputs : /\ in.open_loop /\ in.left /\ Len(in.others) <= 1
                       /\ (in.check \/ in.others = <<>>)}

Remainings == {GIVE_WAY_DISTANCE - 1, GIVE_WAY_DISTANCE, GIVE_WAY_DISTANCE + POINT_SPACING,
               GIVE_WAY_DISTANCE + POINT_SPACING + 1}

\* What the construction of each class reads of the frame and the map.
ScenariosOf(kind) ==
    CASE kind = "Continue" -> [lane_found : BOOLEAN, tp_given : BOOLEAN]
      [] kind = "ContinueNextExit" -> [lane_found : BOOLEAN, successor : {"None", "lanes"}]
      [] kind \in {"ChangeLaneLeft", "ChangeLaneRight"} ->
             [lane_found : BOOLEAN, target_found : BOOLEAN, gap : MacroGapInputs]
      [] kind = "Exit" ->
             [lane_found : BOOLEAN, in_junction : BOOLEAN, remaining : Remainings,
              connecting : {"found", "none_in_threshold", "no_successor"}]

\* The lane queries a construction makes that yield nothing: best_lane_at or
\* _find_current_lane (lines 201, 244, 291, 489), link.successor (lines 256,
\* 552), _get_lane_sequence (line 293), _find_connecting_lane (line 507).
NothingFound(kind, ol, sc) ==
    CASE kind = "Continue" ->
             \* with a termination point the lane is not used (lines 202-204)
             IF ol /\ ~sc.lane_found /\ ~sc.tp_given THEN {"lane"} ELSE {}
      [] kind = "ContinueNextExit" ->
             IF ~ol THEN {}
             ELSE IF ~sc.lane_found THEN {"lane"}
             ELSE IF sc.successor = "None" THEN {"successor"} ELSE {}
      [] kind \in {"ChangeLaneLeft", "ChangeLaneRight"} ->
             IF ~sc.lane_found THEN {"lane"}
             ELSE IF ~sc.target_found THEN {"target_lane"} ELSE {}
      [] kind = "Exit" ->
             IF ~sc.lane_found THEN {"lane"}
             ELSE IF ~ol \/ sc.in_junction THEN {}
             ELSE IF sc.connecting = "no_successor" THEN {"successor"}
             ELSE IF sc.connecting = "none_in_threshold" THEN {"connecting_lane"}
             ELSE {}

\* self.get_maneuvers() of the class (line 39)
GetManeuvers(kind, ol, sc) ==
    CASE kind = "Continue" -> ContinueGetManeuvers(ol, sc)
      [] kind = "ContinueNextExit" -> ContinueNextExitGetManeuvers(ol, sc)
      [] kind = "ChangeLaneLeft" -> ChangeLaneGetManeuvers(TRUE, ol, sc)
      [] kind = "ChangeLaneRight" -> ChangeLaneGetManeuvers(FALSE, ol, sc)
      [] kind = "Exit" -> ExitGetManeuvers(ol, sc)

\* MacroAction.__init__ (lines 33-40): the fields of the new object.
Constructed(kind, ol, sc) ==
    /\ GetManeuvers(kind, ol, sc).outcome = "ok"
    /\ ma_kind' = kind
    /\ open_loop' = ol
    /\ maneuvers' = GetManeuvers(kind, ol, sc).maneuvers
    /\ final_frame' = GetManeuvers(kind, ol, sc).final_frame
    /\ current_maneuver' = None
    /\ ma_ret' = [op |-> "init", result |-> "ok", nothing |-> NothingFound(kind, ol, sc)]

MaInit ==
    /\ component = "macro_action"
    /\ \E kind \in MacroKinds, ol \in BOOLEAN : \E sc \in ScenariosOf(kind) :
           LET made == GetManeuvers(kind, ol, sc)
           IN  /\ made.outcome = "ok"
               /\ ma_kind = kind
               /\ open_loop = ol
               /\ maneuvers = made.maneuvers
               /\ final_frame = made.final_frame
               /\ current_maneuver = None
               /\ ma_ret = [op |-> "init", result |-> "ok",
                            nothing |-> NothingFound(kind, ol, sc)]
    /\ NodeIdle /\ ClIdle /\ VaIdle /\ PfIdle /\ NlIdle /\ GaIdle /\ PaIdle /\ McIdle /\ TrIdle /\ TaIdle /\ SqIdle /\ TmIdle

\* A new macro action takes the place of the old one, as in
\* MacroAgent.update_macro_action; a constructor that raises leaves the old
\* one in place.
ma_construct(kind, ol, sc) ==
    /\ component = "macro_action"
    /\ IF GetManeuvers(kind, ol, sc).outcome = "ok"
       THEN Constructed(kind, ol, sc)
       ELSE /\ ma_ret' = [op |-> "init", result |-> GetManeuvers(kind, ol, sc).outcome,
                          nothing |-> NothingFound(kind, ol, sc)]
            /\ UNCHANGED <<ma_kind, open_loop, maneuvers, current_maneuver, final_frame>>
    /\ UNCHANGED notMa

\* The value of self.current_maneuver is a Maneuver: it has done and next_action.
IsManeuver(cur) == Len(cur) = 1 /\ cur[1].is = "maneuver"
AManeuver(man) == <<[is |-> "maneuver", val |-> <<man>>]>>
AList(mans) == <<[is |-> "list", val |-> mans]>>

\* MacroAction.next_action (lines 114-116).  is_done: what the current
\* maneuver's done(frame, scenario_map) returns.  None and a list have no
\* attribute done or next_action.
ma_next_action(is_done) ==
    /\ component = "macro_action"
    /\ IF ~IsManeuver(current_maneuver)
       THEN /\ ma_ret' = [op |-> "next_action", result |-> "AttributeError"]
            /\ UNCHANGED current_maneuver
       ELSE IF is_done
       THEN /\ current_maneuver' = AList(Tail(maneuvers))
            /\ ma_ret' = [op |-> "next_action", result |-> "AttributeError"]
       ELSE /\ ma_ret' = [op |-> "next_action", result |-> "Action"]
            /\ UNCHANGED current_maneuver
    /\ UNCHANGED <<notMa, ma_kind, open_loop, maneuvers, final_frame>>

\* MacroAction.done (line 109):
\* len(self._maneuvers) == 0 and self._current_maneuver.done(frame, scenario_map)
ma_done(is_done) ==
    /\ component = "macro_action"
    /\ ma_ret' = [op |-> "done",
                  result |-> IF Len(maneuvers) # 0 THEN "False"
                             ELSE IF ~IsManeuver(current_maneuver) THEN "AttributeError"
                             ELSE IF is_done THEN "True" ELSE "False"]
    /\ UNCHANGED <<notMa, ma_kind, open_loop, maneuvers, current_maneuver, final_frame>>

MaNext ==
    \/ \E kind \in MacroKinds, ol \in BOOLEAN : \E sc \in ScenariosOf(kind) :
           ma_construct(kind, ol, sc)
    \/ \E is_done \in BOOLEAN : ma_next_action(is_done)
    \/ \E is_done \in BOOLEAN : ma_done(is_done)

SpecMacroAction == MaInit /\ [][MaNext]_vars

\* C2: when next_action is called and the current maneuver reports done, the
\* current maneuver becomes exactly the next single maneuver of the sequence
\* and the returned action is that maneuver's action; when it is not done the
\* current maneuver stays.  Either way the call returns an action and leaves a
\* single maneuver current.
C2_NextActionAdvances ==
    [][\A is_done \in BOOLEAN :
           ma_next_action(is_done) =>
               /\ ma_ret'.result = "Action"
               /\ IsManeuver(current_maneuver')
               /\ \E i \in 1..Len(maneuvers) :
                      current_maneuver' = AManeuver(maneuvers[i])
               /\ (IsManeuver(current_maneuver) /\ ~is_done) =>
                      current_maneuver' = current_maneuver]_vars

\* C3: once a macro action has been constructed its current maneuver is
\* defined: current_maneuver is never None.
C3_CurrentManeuverDefined ==
    component = "macro_action" => current_maneuver # None

\* C4: after constructing any macro action, open loop or closed loop, its
\* maneuver sequence is non-empty and final_frame holds the frame obtained by
\* playing forward its last maneuver.
C4_ManeuversAndFinalFrame ==
    component = "macro_action" =>
        /\ Len(maneuvers) > 0
        /\ final_frame = Some(PlayForwardAll(<<>>, maneuvers))

\* The gap search has given up: every length from TARGET_SWITCH_LENGTH down to
\* MIN_SWITCH_LENGTH was tried and none ends before the lane does.
SearchGaveUp ==
    /\ cl_in.open_loop /\ cl_in.check
    /\ cl_pc \notin {"get_maneuvers", "search", "RuntimeError"}
    /\ d_change < MIN_SWITCH_LENGTH

\* C9: when the gap search finds no switch length that completes before the
\* lane ends, construction ends in a reported BlockedManeuver outcome, not in
\* an assertion failure and not in a built lane change.
C9_ExhaustedSearchIsBlockedManeuver ==
    (component = "change_lane" /\ SearchGaveUp) => cl_pc = "BlockedManeuver"

\* The gap search has accepted t_start and d_change.
SearchAccepted ==
    /\ cl_in.open_loop /\ cl_in.check
    /\ cl_pc \in {"follow", "switch", "returned"}

RMin(a, b) == IF RLt(b, a) THEN b ELSE a

\* The half-open time windows [a1, a2) and [b1, b2) share a time.
Overlap(a1, a2, b1, b2) == RLt(RMax(a1, b1), RMin(a2, b2))

ChangeEndTime == RAdd(t_start, <<d_change, cl_in.speed>>)

\* C10: whenever the gap search accepts t_start and d_change, the window
\* [t_start, t_start + d_change/speed) overlaps no oncoming-vehicle interval
\* whose distance offset is smaller than d_change, and the window ends strictly
\* before the ego reaches the end of the target lane sequence.
C10_AcceptedWindowIsFree ==
    (component = "change_lane" /\ SearchAccepted) =>
        /\ \A i \in 1..Len(oncoming_intervals) :
               Abs(oncoming_intervals[i].d) < d_change =>
                   ~Overlap(t_start, ChangeEndTime,
                            oncoming_intervals[i].start, oncoming_intervals[i].end)
        /\ RLt(ChangeEndTime, LaneEndTime(cl_in))

\* An accepted change that had to wait for a vehicle and to shorten the switch.
C10_Witness ==
    /\ component = "change_lane" /\ SearchAccepted
    /\ cl_pc = "follow"
    /\ RLt(RZero, t_start)
    /\ d_change < TARGET_SWITCH_LENGTH
    /\ \E i \in 1..Len(oncoming_intervals) : Abs(oncoming_intervals[i].d) < d_change

(***************************************************************************)
(*        ChangeLane.check_change_validity and the applicable checks       *)
(*                                                                         *)
(* A Python result is named by its text: "True", "False", "None", or the   *)
(* exception raised.                                                       *)
(***************************************************************************)
\* The most successors of a lane.
MaxSuccessors == 2

PyBool(b) == IF b THEN "True" ELSE "False"

\* A successor lane, as check_change_validity reads it: the distance of its
\* boundary to the agent, the number of lanes of its lane section (the center
\* lane counts), and whether its road belongs to a junction.
SuccessorDistances == {MIN_SWITCH_LENGTH, MIN_SWITCH_LENGTH + 1,
                       TARGET_SWITCH_LENGTH, TARGET_SWITCH_LENGTH + 1}
SuccessorLanes == [dist : SuccessorDistances, n_lanes : {2, 3}, junction : BOOLEAN]

\* link.successor: None, or a non-empty list of lanes.
SuccessorLists ==
    {None} \cup {Some(l) : l \in UNION {[1..n -> SuccessorLanes] : n \in 1..MaxSuccessors}}

\* A lane section by the ids of its lanes, and the id of the current lane.
LaneSections == {{0, -1}, {1, 0, -1}, {2, 1, 0, -1, -2}, {-1, -2}}
CurrentLanes == {[id |-> i, section |-> sec] : sec \in LaneSections, i \in {-2, -1, 1, 2}}

VaInputs ==
    {in \in [in_junction : BOOLEAN, lane_found : BOOLEAN, lane : CurrentLanes,
             successor : SuccessorLists, in_roundabout : BOOLEAN] :
        in.lane.id \in in.lane.section}

\* min(successor_distances, key=lambda x: x[0]): the first of the nearest.
NearestSuccessor(succ) ==
    LET i == CHOOSE i \in 1..Len(succ) :
                 /\ \A j \in 1..Len(succ) : succ[i].dist <= succ[j].dist
                 /\ \A j \in 1..(i - 1) : succ[j].dist > succ[i].dist
    IN  succ[i]

\* ChangeLane.check_change_validity (lines 429-450)
check_change_validity(in) ==
    IF in.in_junction THEN "False"
    ELSE IF ~in.lane_found THEN "AttributeError"
    ELSE IF IsNone(in.successor) THEN "True"
    ELSE LET successor == TheVal(in.successor)
             nearest_successor == NearestSuccessor(successor)
             distance_to_successor == nearest_successor.dist
         IN  IF \A i \in 1..Len(successor) : successor[i].n_lanes <= 2
             THEN PyBool(distance_to_successor > MIN_SWITCH_LENGTH)
             ELSE IF nearest_successor.junction
             THEN PyBool(distance_to_successor > TARGET_SWITCH_LENGTH \/ in.in_roundabout)
             ELSE "None"

\* Line 381: the id of the lane to change to.
TargetLaneId(id, left) ==
    id + (IF id > 0 THEN 1 ELSE -1) * (IF left THEN -1 ELSE 1)

\* The lane on the side of the change exists in the section.
TargetLaneExists(in, left) ==
    in.lane_found /\ TargetLaneId(in.lane.id, left) \in in.lane.section

\* SwitchLaneLeft.applicable / SwitchLaneRight.applicable: a target lane
\* exists on that side and is not the center lane.
SwitchLaneApplicable(in, left) ==
    TargetLaneExists(in, left) /\ TargetLaneId(in.lane.id, left) # 0

\* x and y: x when x is false, else y.
PyAnd(x, y) == IF x = "False" THEN x ELSE y

\* ChangeLaneLeft.applicable (lines 460-461), ChangeLaneRight.applicable
\* (lines 471-472)
ChangeLaneApplicable(in, left) ==
    PyAnd(PyBool(SwitchLaneApplicable(in, left)), check_change_validity(in))

VaInit ==
    /\ component = "applicable"
    /\ va_in \in VaInputs
    /\ va_ret = [op |-> "none", result |-> "none"]
    /\ NodeIdle /\ ClIdle /\ MaIdle /\ PfIdle /\ NlIdle /\ GaIdle /\ PaIdle /\ McIdle /\ TrIdle /\ TaIdle /\ SqIdle /\ TmIdle

va_check_change_validity ==
    /\ component = "applicable"
    /\ va_ret' = [op |-> "check_change_validity", result |-> check_change_validity(va_in)]
    /\ UNCHANGED <<notVa, va_in>>

va_applicable(left) ==
    /\ component = "applicable"
    /\ va_ret' = [op |-> IF left THEN "ChangeLaneLeft.applicable"
                         ELSE "ChangeLaneRight.applicable",
                  result |-> ChangeLaneApplicable(va_in, left)]
    /\ UNCHANGED <<notVa, va_in>>

VaNext ==
    \/ va_check_change_validity
    \/ \E left \in BOOLEAN : va_applicable(left)

SpecApplicable == VaInit /\ [][VaNext]_vars

\* The side of the last applicable call.
CalledLeft == va_ret.op = "ChangeLaneLeft.applicable"
CalledApplicable == va_ret.op \in {"ChangeLaneLeft.applicable", "ChangeLaneRight.applicable"}

\* C7: ChangeLaneLeft.applicable / ChangeLaneRight.applicable returns true if
\* and only if a target lane exists on that side, it is not the center lane
\* (id 0) and the distance-to-junction validity check passes; in every other
\* case it returns false.
C7_ApplicableIff ==
    (component = "applicable" /\ CalledApplicable) =>
        LET holds == /\ TargetLaneExists(va_in, CalledLeft)
                     /\ TargetLaneId(va_in.lane.id, CalledLeft) # 0
                     /\ check_change_validity(va_in) = "True"
        IN  /\ va_ret.result = "True" <=> holds
            /\ va_ret.result = "False" <=> ~holds

\* C8: check_change_validity is false inside a junction, true when the current
\* lane has no successor, and with successors true only if the nearest
\* successor is farther than MIN_SWITCH_LENGTH (all successors single-lane) or
\* farther than TARGET_SWITCH_LENGTH or the road is in a roundabout
\* (otherwise); the result is always a definite true or false.
C8_ValidityDecides ==
    (component = "applicable" /\ va_ret.op = "check_change_validity" /\ va_in.lane_found) =>
        /\ va_ret.result \in {"True", "False"}
        /\ va_in.in_junction => va_ret.result = "False"
        /\ (~va_in.in_junction /\ IsNone(va_in.successor)) => va_ret.result = "True"
        /\ (~va_in.in_junction /\ ~IsNone(va_in.successor) /\ va_ret.result = "True") =>
               LET successor == TheVal(va_in.successor)
                   nearest == NearestSuccessor(successor).dist
               IN  IF \A i \in 1..Len(successor) : successor[i].n_lanes <= 2
                   THEN nearest > MIN_SWITCH_LENGTH
                   ELSE nearest > TARGET_SWITCH_LENGTH \/ va_in.in_roundabout

(***************************************************************************)
(*               MacroAction.play_forward_macro_action                     *)
(***************************************************************************)
\* The most agents of a frame besides the ego.
MaxFrameOthers == 2

\* The lanes of the map and their lengths; lane 0 stands for no lane.
MapLanes == {1, 2}
LaneLength == <<2, 3>>

\* The maps: every lane's link.successor, None (0) or a list whose first lane
\* is the one named.  Lanes that follow each other in a circle are among them.
Topologies == [MapLanes -> MapLanes \cup {0}]

\* An agent's state, as the projection reads it: the lane best_lane_at finds
\* (0: none), the distance along it, the speed.
FrameAgents == [lane : MapLanes \cup {0}, dist : {0, 1}, speed : {0, 3}]
Durations == {0, 2, 5}

\* trajectory.final_agent_state of the macro action
FinalAgentState == [lane |-> 2, dist |-> 2, speed |-> 1]
EgoState == [lane |-> 1, dist |-> 0, speed |-> 1]

\* The ego has id 0 and the other agents ids 1..n.
Frames ==
    UNION {{[aid \in 0..n |-> IF aid = 0 THEN EgoState ELSE others[aid]] :
                others \in [1..n -> FrameAgents]} : n \in 0..MaxFrameOthers}

\* macro_action: None, a closed-loop one, or an open-loop one with its
\* trajectory's duration.
MacroArgs ==
    {[is |-> "None", duration |-> 0], [is |-> "closed_loop", duration |-> 0]}
        \cup {[is |-> "open_loop", duration |-> d] : d \in Durations}

PfInputs == [agent_id : {0}, successor : Topologies, frame : Frames, macro_action : MacroArgs]

\* The ids of a frame in the order of its items.
RECURSIVE IdsFrom(_, _)
IdsFrom(frame, aid) ==
    IF aid \notin DOMAIN frame THEN <<>> ELSE <<aid>> \o IdsFrom(frame, aid + 1)

PfInit ==
    /\ component = "play_forward"
    /\ pf_in \in PfInputs
    /\ pf_pc = "start"
    /\ pf_new_frame = <<>>
    /\ pf_pending = <<>>
    /\ pf_aid = 0
    /\ pf_lane = 0
    /\ pf_total = 0
    /\ pf_ds = 0
    /\ pf_run = 1
    /\ pf_first = None
    /\ NodeIdle /\ ClIdle /\ MaIdle /\ VaIdle /\ NlIdle /\ GaIdle /\ PaIdle /\ McIdle /\ TrIdle /\ TaIdle /\ SqIdle /\ TmIdle

\* Lines 79-84
pf_start ==
    /\ component = "play_forward"
    /\ pf_pc = "start"
    /\ IF pf_in.macro_action.is = "None"
       THEN /\ pf_new_frame' = pf_in.frame
            /\ pf_pc' = "returned"
            /\ UNCHANGED pf_pending
       ELSE IF pf_in.macro_action.is = "closed_loop"
       THEN /\ pf_pc' = "ValueError"
            /\ UNCHANGED <<pf_new_frame, pf_pending>>
       ELSE /\ pf_new_frame' = (pf_in.agent_id :> FinalAgentState)
            /\ pf_pending' = IdsFrom(pf_in.frame, 0)
            /\ pf_pc' = "for"
    /\ UNCHANGED <<notPf, pf_in, pf_aid, pf_lane, pf_total, pf_ds, pf_run, pf_first>>

\* Lines 85-92: the next item of the frame, up to the call of
\* _lane_at_distance; line 96 when no item is left.
pf_for ==
    /\ component = "play_forward"
    /\ pf_pc = "for"
    /\ IF pf_pending = <<>>
       THEN /\ pf_pc' = "returned"
            /\ UNCHANGED <<pf_pending, pf_aid, pf_lane, pf_total, pf_ds>>
       ELSE LET aid == Head(pf_pending)
                agent == pf_in.frame[aid]
            IN  /\ pf_pending' = Tail(pf_pending)
                /\ pf_aid' = aid
                /\ IF aid = pf_in.agent_id \/ agent.lane = 0
                   THEN UNCHANGED <<pf_pc, pf_lane, pf_total, pf_ds>>
                   ELSE /\ pf_ds' = agent.dist + pf_in.macro_action.duration * agent.speed
                        /\ pf_lane' = agent.lane
                        /\ pf_total' = 0
                        /\ pf_pc' = "while"
    /\ UNCHANGED <<notPf, pf_in, pf_new_frame, pf_run, pf_first>>

\* Line 71 left out: total_length never grows.
LaneWalkStepNoTotal(successor, lane, total, ds) ==
    IF total <= ds /\ ds < total + LaneLength[lane]
    THEN [returns |-> TRUE, lane |-> lane, distance |-> ds - total, total |-> total]
    ELSE IF successor[lane] = 0
    THEN [returns |-> TRUE, lane |-> lane, distance |-> LaneLength[lane], total |-> total]
    ELSE [returns |-> FALSE, lane |-> successor[lane], distance |-> 0, total |-> total]

\* Lines 69-77: one iteration of the loop of _lane_at_distance.  It returns
\* (found), or gives up at a lane without successor, or goes on.
LaneWalkStep(successor, lane, total, ds) ==
    IF total <= ds /\ ds < total + LaneLength[lane]
    THEN [returns |-> TRUE, lane |-> lane, distance |-> ds - total, total |-> total]
    ELSE IF successor[lane] = 0
    THEN [returns |-> TRUE, lane |-> lane, distance |-> LaneLength[lane],
          total |-> total + LaneLength[lane]]
    ELSE [returns |-> FALSE, lane |-> successor[lane], distance |-> 0,
          total |-> total + LaneLength[lane]]

\* Lines 93-94 writing to the agent of the frame itself
FrameAfterWriteInPlace(frame, aid, state) == [frame EXCEPT ![aid] = state]

\* Line 88, state = copy(agent): the writes of lines 93-94 go to the copy, and
\* the frame passed in keeps its agents.
FrameAfterWrite(frame, aid, state) == frame

\* An iteration of _lane_at_distance and, when it returns, lines 93-95.
pf_while ==
    /\ component = "play_forward"
    /\ pf_pc = "while"
    /\ LET step == LaneWalkStep(pf_in.successor, pf_lane, pf_total, pf_ds)
       IN  /\ pf_lane' = step.lane
           /\ pf_total' = step.total
           /\ IF step.returns
              THEN LET state == [lane |-> step.lane, dist |-> step.distance,
                                 speed |-> pf_in.frame[pf_aid].speed]
                   IN  /\ pf_new_frame' = (pf_aid :> state) @@ pf_new_frame
                       /\ pf_in' = [pf_in EXCEPT
                                       !.frame = FrameAfterWrite(pf_in.frame, pf_aid, state)]
                       /\ pf_pc' = "for"
              ELSE UNCHANGED <<pf_new_frame, pf_pc, pf_in>>
    /\ UNCHANGED <<notPf, pf_pending, pf_aid, pf_ds, pf_run, pf_first>>

\* The caller calls the function a second time with the arguments of the
\* first call, the objects of the frame and the map as the first call left
\* them; the locals of the second call are new.
pf_again ==
    /\ component = "play_forward"
    /\ pf_pc \in {"returned", "ValueError"}
    /\ pf_run = 1
    /\ pf_first' = Some([pc |-> pf_pc, new_frame |-> pf_new_frame])
    /\ pf_run' = 2
    /\ pf_pc' = "start"
    /\ pf_new_frame' = <<>>
    /\ pf_pending' = <<>>
    /\ pf_aid' = 0
    /\ pf_lane' = 0
    /\ pf_total' = 0
    /\ pf_ds' = 0
    /\ UNCHANGED <<notPf, pf_in>>

PfNext ==
    \/ pf_start
    \/ pf_for
    \/ pf_while
    \/ pf_again

SpecPlayForward == PfInit /\ [][PfNext]_vars

\* The function runs to its end once called: it is sequential code.
SpecPlayForwardFair == SpecPlayForward /\ WF_vars(PfNext)

\* The k-th lane after lane l along the first successors (0 once the chain
\* has ended), and the length of the k lanes before it.
RECURSIVE ChainLane(_, _, _)
ChainLane(successor, l, k) ==
    IF k = 0 \/ l = 0 THEN l ELSE ChainLane(successor, successor[l], k - 1)

RECURSIVE ChainLength(_, _, _)
ChainLength(successor, l, k) ==
    IF k = 0 \/ l = 0 THEN 0
    ELSE LaneLength[l] + ChainLength(successor, successor[l], k - 1)

\* (lane, distance) is the point at arc length ds of the chain that starts at
\* lane l.
IsPointAt(successor, l, ds, lane, distance) ==
    \E k \in 0..ds :
        /\ ChainLane(successor, l, k) = lane
        /\ lane # 0
        /\ ChainLength(successor, l, k) <= ds
        /\ ds < ChainLength(successor, l, k) + LaneLength[lane]
        /\ distance = ds - ChainLength(successor, l, k)

\* The chain that starts at lane l ends before arc length ds, and (lane,
\* distance) is the end of its last lane.
IsChainEnd(successor, l, ds, lane, distance) ==
    \E k \in 0..ds :
        /\ ChainLane(successor, l, k) = lane
        /\ lane # 0
        /\ successor[lane] = 0
        /\ ChainLength(successor, l, k + 1) <= ds
        /\ distance = LaneLength[lane]

\* The arc length agent aid of the input frame is to reach.
TargetDistance(aid) ==
    pf_in.frame[aid].dist + pf_in.macro_action.duration * pf_in.frame[aid].speed

\* Agent aid of the returned frame is the input frame's agent advanced along
\* its lane chain by speed times the duration (to the end of the chain when it
\* is shorter), at its old speed.
Advanced(aid) ==
    /\ aid \in DOMAIN pf_new_frame
    /\ pf_in.frame[aid].lane # 0
    /\ pf_new_frame[aid].speed = pf_in.frame[aid].speed
    /\ \/ IsPointAt(pf_in.successor, pf_in.frame[aid].lane, TargetDistance(aid),
                    pf_new_frame[aid].lane, pf_new_frame[aid].dist)
       \/ IsChainEnd(pf_in.successor, pf_in.frame[aid].lane, TargetDistance(aid),
                     pf_new_frame[aid].lane, pf_new_frame[aid].dist)

Projected ==
    /\ component = "play_forward"
    /\ pf_pc = "returned"
    /\ pf_in.macro_action.is = "open_loop"

\* C5 as claimed: the projected frame contains exactly the agent ids of the
\* input frame, the ego at the final state of the trajectory and every other
\* agent advanced along its lane chain.
C5_AllAgentsProjected ==
    Projected =>
        /\ DOMAIN pf_new_frame = DOMAIN pf_in.frame
        /\ pf_new_frame[pf_in.agent_id] = FinalAgentState
        /\ \A aid \in DOMAIN pf_in.frame \ {pf_in.agent_id} : Advanced(aid)

\* What the code returns instead: the ego, at the final state of the
\* trajectory, and only those other agents of the input frame that are on a
\* lane, each advanced along its lane chain.
AgentsOnLanesProjected ==
    Projected =>
        /\ DOMAIN pf_new_frame =
               {pf_in.agent_id} \cup {aid \in DOMAIN pf_in.frame : pf_in.frame[aid].lane # 0}
        /\ pf_new_frame[pf_in.agent_id] = FinalAgentState
        /\ \A aid \in DOMAIN pf_new_frame \ {pf_in.agent_id} : Advanced(aid)

C11_SameSpeedNeighbourBlocks ==
    (/\ component = "change_lane"
     /\ BlockedBySameSpeed(cl_in.speed, cl_in.pos, cl_in.others))
        => /\ cl_pc \in {"get_maneuvers", "RuntimeError"}
           /\ cl_maneuvers = <<>>

\* The classes of a maneuver sequence, in order.
Classes(mans) == [i \in 1..Len(mans) |-> mans[i].cls]

\* C12: the maneuvers of an open-loop Exit are in order: outside a junction a
\* FollowLane exactly when the lane's remaining length exceeds
\* GIVE_WAY_DISTANCE + POINT_SPACING, then GiveWay, then Turn; inside a
\* junction one Turn.  Turn is last and GiveWay never follows it.
C12_ExitOrder ==
    /\ []((component = "macro_action" /\ ma_kind = "Exit" /\ open_loop = TRUE) =>
             Classes(maneuvers) \in {<<"Turn">>, <<"GiveWay", "Turn">>,
                                     <<"FollowLane", "GiveWay", "Turn">>})
    /\ [][\A sc \in ScenariosOf("Exit") :
             (ma_construct("Exit", TRUE, sc) /\ ma_ret'.result = "ok") =>
                 Classes(maneuvers') =
                     IF sc.in_junction THEN <<"Turn">>
                     ELSE IF sc.remaining > GIVE_WAY_DISTANCE + POINT_SPACING
                     THEN <<"FollowLane", "GiveWay", "Turn">>
                     ELSE <<"GiveWay", "Turn">>]_vars

\* An open-loop Exit that follows its lane, gives way and turns.
C12_Witness ==
    /\ component = "macro_action"
    /\ ma_kind = "Exit"
    /\ open_loop = TRUE
    /\ Len(maneuvers) = 3

TURN_TARGET_THRESHOLD == 1

MaxCandidates == 3

\* np.linalg.norm(self.turn_target - endpoint), in metres, as fractions
EndpointDistances == {<<0, 1>>, <<1, 2>>, <<1, 1>>, <<3, 2>>}
LaneLists == UNION {[1..n -> EndpointDistances] : n \in 0..MaxCandidates}

\* np.inf is the empty sequence, a distance d is <<d>>.
Inf == <<>>
LtBest(distance, best) == best = Inf \/ RLt(distance, best[1])

\* Line 542 without the comparison with best_distance
NearestLaneStepLast(lane, distance, best, bdist) ==
    IF RLt(distance, <<TURN_TARGET_THRESHOLD, 1>>)
    THEN [best_lane |-> Some(lane), best_distance |-> <<distance>>]
    ELSE [best_lane |-> best, best_distance |-> bdist]

\* Lines 541-544: the body of the for loop
NearestLaneStep(lane, distance, best, bdist) ==
    IF RLt(distance, <<TURN_TARGET_THRESHOLD, 1>>) /\ LtBest(distance, bdist)
    THEN [best_lane |-> Some(lane), best_distance |-> <<distance>>]
    ELSE [best_lane |-> best, best_distance |-> bdist]

NlInit ==
    /\ component = "nearest_lane"
    /\ nl_in \in LaneLists
    /\ nl_pc = "for"
    /\ nl_i = 1
    /\ best_lane = None
    /\ best_distance = Inf
    /\ nl_ret = None
    /\ NodeIdle /\ ClIdle /\ MaIdle /\ VaIdle /\ PfIdle /\ GaIdle /\ PaIdle /\ McIdle /\ TrIdle /\ TaIdle /\ SqIdle /\ TmIdle

\* Lines 540-544: one iteration
nl_for ==
    /\ component = "nearest_lane"
    /\ nl_pc = "for"
    /\ nl_i <= Len(nl_in)
    /\ LET step == NearestLaneStep(nl_i, nl_in[nl_i], best_lane, best_distance)
       IN  /\ best_lane' = step.best_lane
           /\ best_distance' = step.best_distance
    /\ nl_i' = nl_i + 1
    /\ UNCHANGED <<notNl, nl_in, nl_pc, nl_ret>>

\* Line 545
nl_return ==
    /\ component = "nearest_lane"
    /\ nl_pc = "for"
    /\ nl_i > Len(nl_in)
    /\ nl_pc' = "returned"
    /\ nl_ret' = best_lane
    /\ UNCHANGED <<notNl, nl_in, nl_i, best_lane, best_distance>>

NlNext == nl_for \/ nl_return

SpecNearestLane == NlInit /\ [][NlNext]_vars

\* C13: the connecting-lane selection returns, among the candidate lanes, the
\* one whose endpoint is nearest to the turn target if that distance is below
\* TURN_TARGET_THRESHOLD, and no lane when no candidate's endpoint is within
\* the threshold.
C13_NearestWithinThreshold ==
    (component = "nearest_lane" /\ nl_pc = "returned") =>
        LET within == {i \in 1..Len(nl_in) : RLt(nl_in[i], <<TURN_TARGET_THRESHOLD, 1>>)}
        IN  IF within = {} THEN nl_ret = None
            ELSE /\ nl_ret # None
                 /\ nl_ret[1] \in within
                 /\ \A j \in 1..Len(nl_in) : RLe(nl_in[nl_ret[1]], nl_in[j])

\* A selection among several lanes, of which a later one is the nearest and an
\* earlier one is also within the threshold.
C13_Witness ==
    /\ component = "nearest_lane"
    /\ nl_pc = "returned"
    /\ nl_ret # None
    /\ nl_ret[1] > 1
    /\ RLt(nl_in[1], <<TURN_TARGET_THRESHOLD, 1>>)
    /\ Len(nl_in) > nl_ret[1]

(***************************************************************************)
(*                  MacroAction.get_applicable_actions                     *)
(***************************************************************************)
\* all_subclasses(MacroAction): the classes of macro_action.py
Subclasses == {"Continue", "ContinueNextExit", "ChangeLane", "ChangeLaneLeft",
               "ChangeLaneRight", "Exit"}

\* The successors of the current lane taken here: none, a junction lane far
\* enough, a multi-lane road that is no junction.
GaSuccessors ==
    {None,
     Some(<<[dist |-> TARGET_SWITCH_LENGTH + 1, n_lanes |-> 3, junction |-> TRUE]>>),
     Some(<<[dist |-> TARGET_SWITCH_LENGTH + 1, n_lanes |-> 3, junction |-> FALSE]>>)}

\* va: what the ChangeLane checks read (va.in_junction is junction_at(position)
\* is not None); road_junction: the current lane's parent_road.junction is not
\* None; follow_lane, give_way, turn: what FollowLane.applicable,
\* GiveWay.applicable and Turn.applicable return.
GaInputs ==
    [va : {in \in VaInputs : in.successor \in GaSuccessors},
     road_junction : BOOLEAN, follow_lane : BOOLEAN, give_way : BOOLEAN, turn : BOOLEAN]

\* Continue.applicable (lines 217-219)
ContinueApplicable(in) ==
    IF ~in.va.lane_found THEN "AttributeError"
    ELSE PyBool(in.follow_lane /\ ~in.road_junction /\ ~in.give_way)

\* Line 276: all([np.abs(current_lane.id) > np.abs(lid) for lid in all_lane_ids])
AllOtherIdsSmaller(lane) ==
    \A lid \in lane.section \ {lane.id} : Abs(lane.id) > Abs(lid)

\* Line 276 with only the lanes on the current lane's side compared
AllOtherIdsOfSideSmaller(lane) ==
    \A lid \in lane.section \ {lane.id} :
        lid * lane.id > 0 => Abs(lane.id) > Abs(lid)

\* ContinueNextExit.applicable (lines 272-277)
ContinueNextExitApplicable(in) ==
    IF ~in.va.lane_found THEN "AttributeError"
    ELSE PyBool(/\ in.va.in_roundabout
                /\ ~in.road_junction
                /\ ~AllOtherIdsSmaller(in.va.lane)
                /\ in.follow_lane)

\* Exit.applicable (lines 558-565)
ExitApplicable(in) ==
    IF in.va.in_junction THEN PyBool(in.turn) ELSE PyBool(in.give_way)

\* macro_action.applicable(agent_state, scenario_map) of each subclass;
\* ChangeLane inherits MacroAction.applicable (line 105).
Applicable(cls, in) ==
    CASE cls = "Continue" -> ContinueApplicable(in)
      [] cls = "ContinueNextExit" -> ContinueNextExitApplicable(in)
      [] cls = "ChangeLane" -> "NotImplementedError"
      [] cls = "ChangeLaneLeft" -> ChangeLaneApplicable(in.va, TRUE)
      [] cls = "ChangeLaneRight" -> ChangeLaneApplicable(in.va, FALSE)
      [] cls = "Exit" -> ExitApplicable(in)

GaInit ==
    /\ component = "applicable_actions"
    /\ ga_in \in GaInputs
    /\ ga_pc = "for"
    /\ ga_pending = Subclasses
    /\ ga_actions = {}
    /\ NodeIdle /\ ClIdle /\ MaIdle /\ VaIdle /\ PfIdle /\ NlIdle /\ PaIdle /\ McIdle /\ TrIdle /\ TaIdle /\ SqIdle /\ TmIdle

\* Lines 149-154: one iteration.  The subclasses come in no stated order.
\* Only NotImplementedError is caught; None is not true.
ga_for(cls) ==
    /\ component = "applicable_actions"
    /\ ga_pc = "for"
    /\ cls \in ga_pending
    /\ ga_pending' = ga_pending \ {cls}
    /\ LET result == Applicable(cls, ga_in)
       IN  CASE result = "True" ->
                    ga_actions' = ga_actions \cup {cls} /\ UNCHANGED ga_pc
             [] result \in {"False", "None", "NotImplementedError"} ->
                    UNCHANGED <<ga_actions, ga_pc>>
             [] OTHER ->
                    ga_pc' = result /\ UNCHANGED ga_actions
    /\ UNCHANGED <<notGa, ga_in>>

\* Line 155
ga_return ==
    /\ component = "applicable_actions"
    /\ ga_pc = "for"
    /\ ga_pending = {}
    /\ ga_pc' = "returned"
    /\ UNCHANGED <<notGa, ga_in, ga_pending, ga_actions>>

GaNext ==
    \/ \E cls \in Subclasses : ga_for(cls)
    \/ ga_return

SpecApplicableActions == GaInit /\ [][GaNext]_vars

\* C15: get_applicable_actions raises for no agent state and no map; an agent
\* on no lane has no applicable macro action, which the list shows by leaving
\* the types out.
C15_ApplicableActionsNeverRaises ==
    component = "applicable_actions" => ga_pc \in {"for", "returned"}

\* C18: ContinueNextExit is applicable only in a roundabout, outside a
\* junction, on a lane that can be followed, and not in the outermost lane on
\* the current lane's side of the lane section.
C18_NotInOutermostLane ==
    (component = "applicable_actions" /\ "ContinueNextExit" \in ga_actions) =>
        /\ ga_in.va.in_roundabout
        /\ ~ga_in.road_junction
        /\ ga_in.follow_lane
        /\ ~AllOtherIdsOfSideSmaller(ga_in.va.lane)

(***************************************************************************)
(*        Exit.get_possible_args and MacroAgent.update_macro_action        *)
(***************************************************************************)
MaxLanes == 3

\* The end points of the lanes' midlines, on a grid of 0.25 m (the atol of
\* line 582), and the goal's centre.
EndPoints == {0, 1, 2} \X {0, 2}
GoalPoints == {<<0, 0>>, <<2, 2>>}

\* A lane as get_possible_args reads it: its midline's last point and whether
\* its road is in a roundabout.
ArgLanes == [endpoint : EndPoints, roundabout : BOOLEAN]
ArgLaneLists == UNION {[1..n -> ArgLanes] : n \in 0..MaxLanes}

\* in_junction: junction_at finds a junction.  In a junction lanes is what
\* lanes_within_angle returns and best what best_lane_at returns when it is
\* empty; lane_to_target: _find_current_lane finds a lane for the Exit built.
\* Outside a junction current tells whether best_lane_at finds a lane and
\* whether its link.successor is None, and lanes is link.successor.
PaInputs ==
    {in \in [in_junction : BOOLEAN, lanes : ArgLaneLists, best : {None} \cup {Some(l) : l \in ArgLanes},
             lane_to_target : BOOLEAN, current : {"lane", "no_lane", "no_successor"},
             goal : GoalPoints] :
        /\ (in.in_junction /\ in.lanes = <<>>) \/ in.best = None
        /\ in.in_junction \/ in.lane_to_target
        /\ ~in.in_junction \/ in.current = "lane"
        /\ in.current = "lane" \/ in.lanes = <<>>}

\* np.allclose(p, target, atol=0.25) on the grid: every coordinate differs by
\* at most one step (rtol is 1e-5).
AllClose(p, target) ==
    /\ Abs(p[1] - target[1]) <= 1
    /\ Abs(p[2] - target[2]) <= 1

\* The square of np.linalg.norm(p - goal)
Norm2(p, goal) ==
    (p[1] - goal[1]) * (p[1] - goal[1]) + (p[2] - goal[2]) * (p[2] - goal[2])

\* np.argmin: the first index of the least value
ArgMin(ps, goal) ==
    CHOOSE i \in 1..Len(ps) :
        /\ \A j \in 1..Len(ps) : Norm2(ps[i], goal) <= Norm2(ps[j], goal)
        /\ \A j \in 1..(i - 1) : Norm2(ps[j], goal) > Norm2(ps[i], goal)

PaInit ==
    /\ component = "possible_args"
    /\ pa_in \in PaInputs
    /\ pa_pc = "get_possible_args"
    /\ pa_lanes = <<>>
    /\ targets = <<>>
    /\ possible_args = <<>>
    /\ current_macro = None
    /\ NodeIdle /\ ClIdle /\ MaIdle /\ VaIdle /\ PfIdle /\ NlIdle /\ GaIdle /\ McIdle /\ TrIdle /\ TaIdle /\ SqIdle /\ TmIdle

\* Lines 571-579, 585-586: the lanes to visit.
pa_start ==
    /\ component = "possible_args"
    /\ pa_pc = "get_possible_args"
    /\ IF pa_in.in_junction
       THEN IF pa_in.lanes # <<>>
            THEN pa_lanes' = pa_in.lanes /\ pa_pc' = "for"
            ELSE IF pa_in.best = None
            THEN pa_pc' = "AttributeError" /\ UNCHANGED pa_lanes
            ELSE pa_lanes' = pa_in.best /\ pa_pc' = "for"
       ELSE CASE pa_in.current = "no_lane" ->
                     pa_pc' = "AttributeError" /\ UNCHANGED pa_lanes
              [] pa_in.current = "no_successor" ->
                     pa_pc' = "TypeError" /\ UNCHANGED pa_lanes
              [] OTHER -> pa_lanes' = pa_in.lanes /\ pa_pc' = "for"
    /\ UNCHANGED <<notPa, pa_in, targets, possible_args, current_macro>>

\* Lines 582-583 without the comparison with the targets found
NewTargetsUnmerged(in_junction, lane, tgts) ==
    IF in_junction THEN Append(tgts, lane.endpoint)
    ELSE IF ~lane.roundabout THEN Append(tgts, lane.endpoint) ELSE tgts

\* Lines 580-583 and 586-588: the target a lane adds to targets, if any.
NewTargets(in_junction, lane, tgts) ==
    IF in_junction
    THEN IF \E i \in 1..Len(tgts) : AllClose(tgts[i], lane.endpoint)
         THEN tgts ELSE Append(tgts, lane.endpoint)
    ELSE IF ~lane.roundabout THEN Append(tgts, lane.endpoint) ELSE tgts

\* One iteration of the for loop of either branch.
pa_for ==
    /\ component = "possible_args"
    /\ pa_pc = "for"
    /\ pa_lanes # <<>>
    /\ targets' = NewTargets(pa_in.in_junction, Head(pa_lanes), targets)
    /\ pa_lanes' = Tail(pa_lanes)
    /\ UNCHANGED <<notPa, pa_in, pa_pc, possible_args, current_macro>>

\* Line 590, and line 295 of agent.py: get_possible_args returns to
\* update_macro_action.
pa_return ==
    /\ component = "possible_args"
    /\ pa_pc = "for"
    /\ pa_lanes = <<>>
    /\ possible_args' = targets
    /\ pa_pc' = "update_macro_action"
    /\ UNCHANGED <<notPa, pa_in, pa_lanes, targets, current_macro>>

\* agent.py, line 301 taking the first target
CollapsedFirst(args, goal) ==
    IF Len(args) > 1 THEN <<args[1]>> ELSE args

\* agent.py, lines 299-302.  new_macro_action is a class and type(Exit) is
\* the metaclass of every macro action, so that isinstance is true.
Collapsed(args, goal) ==
    IF Len(args) > 1 THEN <<args[ArgMin(args, goal)]>> ELSE args

\* agent.py, lines 299-309: the arguments are collapsed and an Exit is built
\* from each, closed loop; the last one built is the current macro action.
pa_update ==
    /\ component = "possible_args"
    /\ pa_pc = "update_macro_action"
    /\ possible_args' = Collapsed(possible_args, pa_in.goal)
    /\ IF possible_args' = <<>>
       THEN pa_pc' = "returned" /\ UNCHANGED current_macro
       ELSE IF ~pa_in.lane_to_target
       THEN pa_pc' = "AttributeError" /\ UNCHANGED current_macro
       ELSE /\ pa_pc' = "returned"
            /\ current_macro' = Some(possible_args'[Len(possible_args')])
    /\ UNCHANGED <<notPa, pa_in, pa_lanes, targets>>

PaNext == pa_start \/ pa_for \/ pa_return \/ pa_update

SpecPossibleArgs == PaInit /\ [][PaNext]_vars

\* C16: with a goal point supplied, the Exit arguments are exactly one turn
\* target, the one nearest to the goal, both as Exit.get_possible_args returns
\* them and as update_macro_action uses them.
C16_SingleGoalCollapses ==
    (/\ component = "possible_args"
     /\ pa_pc \in {"update_macro_action", "returned"}
     /\ targets # <<>>)
        => /\ Len(possible_args) = 1
           /\ \A i \in 1..Len(targets) :
                  Norm2(possible_args[1], pa_in.goal) <= Norm2(targets[i], pa_in.goal)

\* C16 as amended: Exit.get_possible_args returns every target whatever the
\* goal; the arguments update_macro_action builds from are one turn target,
\* the nearest to the goal, which the Exit built is given.
C16_UpdateCollapses ==
    /\ (component = "possible_args" /\ pa_pc = "update_macro_action")
           => possible_args = targets
    /\ (component = "possible_args" /\ pa_pc = "returned" /\ targets # <<>>)
           => /\ Len(possible_args) = 1
              /\ \A i \in 1..Len(targets) :
                     Norm2(possible_args[1], pa_in.goal) <= Norm2(targets[i], pa_in.goal)
              /\ current_macro = Some(possible_args[1])

\* An update that chose, of several targets, one that is not the first.
C16_Witness ==
    /\ component = "possible_args"
    /\ pa_pc = "returned"
    /\ Len(targets) > 1
    /\ possible_args # <<>>
    /\ possible_args[1] # targets[1]

\* The lanes get_possible_args went through, and those of them that can give
\* a target: in a junction all of them, outside the successors whose road is
\* in no roundabout.
ConnectingLanes ==
    IF pa_in.in_junction /\ pa_in.lanes = <<>> THEN pa_in.best ELSE pa_in.lanes
QualifyingLanes ==
    {i \in 1..Len(ConnectingLanes) : pa_in.in_junction \/ ~ConnectingLanes[i].roundabout}

Returned == component = "possible_args" /\ pa_pc = "update_macro_action"

\* C17 as claimed: one connecting lane gives exactly one turn target; else
\* there are at most as many targets as qualifying lanes, and in a junction
\* no two targets are within the tolerance of each other.
C17_OneLaneOneTarget ==
    Returned =>
        /\ Len(ConnectingLanes) = 1 => Len(targets) = 1
        /\ Len(targets) <= Cardinality(QualifyingLanes)
        /\ pa_in.in_junction =>
               \A i, j \in 1..Len(targets) : i # j => ~AllClose(targets[i], targets[j])

\* C17 as amended: one qualifying lane gives exactly one turn target, a
\* single successor in a roundabout none; there are at most as many targets
\* as qualifying lanes, outside a junction as many, and in a junction no two
\* targets are within the tolerance of each other.
C17_OneQualifyingLaneOneTarget ==
    Returned =>
        /\ Cardinality(QualifyingLanes) = 1 => Len(targets) = 1
        /\ Len(targets) <= Cardinality(QualifyingLanes)
        /\ ~pa_in.in_junction => Len(targets) = Cardinality(QualifyingLanes)
        /\ pa_in.in_junction =>
               \A i, j \in 1..Len(targets) : i # j => ~AllClose(targets[i], targets[j])

\* In a junction three lanes gave two targets: one was merged.
C17_Witness ==
    /\ Returned
    /\ pa_in.in_junction
    /\ Len(pa_in.lanes) = 3
    /\ Len(targets) = 2

(***************************************************************************)
(*        Selection and backup at one Node (mcts.py, policy.py)            *)
(***************************************************************************)
MaxIterations == 4

Rewards == {-1, 0, 2}

\* 10^6 ln(N) for N = 1..6, and the square of the exploration constant c.
LnMicro == <<0, 693147, 1098612, 1386294, 1609438, 1791759>>
CSquared == 2

\* The integer square root
ISqrt(x) == CHOOSE k \in 0..2000 : k * k <= x /\ x < (k + 1) * (k + 1)

\* 1000 c sqrt(ln(totalVisits) / actionVisits[i])
Exploration(total, n) == ISqrt((CSquared * LnMicro[total]) \div n)

\* score[i] < score[j], for score = meanQ + c sqrt(ln(totalVisits) / actionVisits)
ScoreLt(q, av, total, i, j) ==
    (q[i][1] * 1000 + Exploration(total, av[i]) * q[i][2]) * q[j][2]
        < (q[j][1] * 1000 + Exploration(total, av[j]) * q[j][2]) * q[i][2]

\* The exploration policy without the zero-visit rule: an unvisited action
\* has the score of its Q alone.
UCB1Scored(q, av, total) ==
    LET Score(i) == IF av[i] = 0 THEN 1 ELSE av[i]
    IN  CHOOSE i \in 1..Len(q) :
            /\ \A j \in 1..Len(q) :
                   ~((q[i][1] * 1000 + Exploration((IF total = 0 THEN 1 ELSE total), Score(i)) * q[i][2]) * q[j][2]
                       < (q[j][1] * 1000 + Exploration((IF total = 0 THEN 1 ELSE total), Score(j)) * q[j][2]) * q[i][2])
            /\ \A j \in 1..(i - 1) :
                   (q[j][1] * 1000 + Exploration((IF total = 0 THEN 1 ELSE total), Score(j)) * q[j][2]) * q[i][2]
                       < (q[i][1] * 1000 + Exploration((IF total = 0 THEN 1 ELSE total), Score(i)) * q[i][2]) * q[j][2]

\* The exploration policy: an action with zero visits before any scored
\* comparison, ties broken by the lowest index.
UCB1(q, av, total) ==
    IF \E i \in 1..Len(av) : av[i] = 0
    THEN CHOOSE i \in 1..Len(av) : av[i] = 0 /\ \A j \in 1..(i - 1) : av[j] # 0
    ELSE CHOOSE i \in 1..Len(q) :
             /\ \A j \in 1..Len(q) : ~ScoreLt(q, av, total, i, j)
             /\ \A j \in 1..(i - 1) : ScoreLt(q, av, total, j, i)

\* Backup's Q with the node's visits for the action's visits
RunningMeanByVisits(q, reward, n, total) ==
    <<q[1] * total + (reward * q[2] - q[1]), q[2] * total>>

\* Backup: Q_new = Q_old + (reward - Q_old) / actionVisits
RunningMean(q, reward, n, total) ==
    <<q[1] * n + (reward * q[2] - q[1]), q[2] * n>>

\* The reward of a dead end: a node with no applicable action
DeadEndReward == -1

\* A dead end that gives no reward: the iteration is given up
RolloutRewardsNoDeadEnd(selected, dead) ==
    IF selected \in dead THEN {} ELSE Rewards

\* The rewards an iteration may back up: the fixed low reward when the child
\* node reached has no applicable action, else the reward of the rollout.
RolloutRewards(selected, dead) ==
    IF selected \in dead THEN {DeadEndReward} ELSE Rewards

\* A deadline looked at in the middle of an iteration too
AtBoundaryOrInFlight(pc) == pc \in {"select", "backup"}

\* The budget and the deadline are looked at before an iteration starts.
AtBoundary(pc) == pc = "select"

\* The greedy policy: arg-max Q, the lowest index of equal ones
MaxPolicy(q) ==
    CHOOSE i \in 1..Len(q) :
        /\ \A j \in 1..Len(q) : ~RLt(q[i], q[j])
        /\ \A j \in 1..(i - 1) : RLt(q[j], q[i])

\* The node after Node.expand, for each number of actions.
McInit ==
    /\ component = "mcts"
    /\ mc_pc = "select"
    /\ \E n \in 1..MaxActions :
           /\ Q = [i \in 1..n |-> <<Zeros(n)[i], 1>>]
           /\ actionVisits = Zeros(n)
           /\ mc_rewards = [i \in 1..n |-> <<>>]
           /\ mc_selections = Zeros(n)
           /\ mc_dead \in SUBSET (1..n)
    /\ visits = 0
    /\ mc_selected = 0
    /\ mc_recommendation = None
    /\ NodeIdle /\ ClIdle /\ MaIdle /\ VaIdle /\ PfIdle /\ NlIdle /\ GaIdle /\ PaIdle /\ TrIdle /\ TaIdle /\ SqIdle /\ TmIdle

\* Selection: the exploration policy chooses the action.
mc_select ==
    /\ component = "mcts"
    /\ mc_pc = "select"
    /\ visits < MaxIterations
    /\ mc_selected' = UCB1(Q, actionVisits, visits)
    /\ mc_selections' = [mc_selections EXCEPT ![mc_selected'] = @ + 1]
    /\ mc_pc' = "backup"
    /\ UNCHANGED <<notMc, Q, actionVisits, visits, mc_rewards, mc_dead, mc_recommendation>>

\* Backup of the reward of the rollout for the (node, action) pair.
mc_backup(reward) ==
    /\ component = "mcts"
    /\ mc_pc = "backup"
    /\ reward \in RolloutRewards(mc_selected, mc_dead)
    /\ actionVisits' = [actionVisits EXCEPT ![mc_selected] = @ + 1]
    /\ visits' = visits + 1
    /\ Q' = [Q EXCEPT ![mc_selected] =
                 RunningMean(@, reward, actionVisits'[mc_selected], visits')]
    /\ mc_rewards' = [mc_rewards EXCEPT ![mc_selected] = Append(@, reward)]
    /\ mc_pc' = "select"
    /\ UNCHANGED <<notMc, mc_selected, mc_dead, mc_selections, mc_recommendation>>

\* The search ends, at the budget or at a deadline before it, and the greedy
\* policy gives the recommendation.
mc_finish ==
    /\ component = "mcts"
    /\ AtBoundary(mc_pc)
    /\ mc_pc' = "done"
    /\ mc_recommendation' = Some(MaxPolicy(Q))
    /\ UNCHANGED <<notMc, Q, actionVisits, visits, mc_selected, mc_rewards, mc_dead,
                   mc_selections>>

McNext ==
    \/ mc_select
    \/ \E reward \in Rewards : mc_backup(reward)
    \/ mc_finish

SpecMCTS == McInit /\ [][McNext]_vars

\* An iteration that started runs to its end, and the search to its budget.
SpecMCTSFair == SpecMCTS /\ WF_vars(McNext)

RECURSIVE SumOf(_)
SumOf(seq) == IF seq = <<>> THEN 0 ELSE Head(seq) + SumOf(Tail(seq))

\* C19: Q[action] is the mean of the rewards backed up for the action (r after
\* one reward r, (r1 + r2) / 2 after two), every backup adds one to the
\* action's visits and one to the node's, and the node's visits are the sum
\* of its action visits.
C19_QIsRunningMean ==
    (component = "mcts" /\ mc_pc = "select") =>
        /\ \A a \in 1..Len(Q) :
               /\ actionVisits[a] = Len(mc_rewards[a])
               /\ actionVisits[a] > 0 =>
                      Q[a][1] * actionVisits[a] = SumOf(mc_rewards[a]) * Q[a][2]
        /\ visits = SumOf(actionVisits)

\* Two different rewards were backed up for one action.
C19_Witness ==
    /\ component = "mcts"
    /\ mc_pc = "select"
    /\ \E a \in 1..Len(Q) :
           /\ Len(mc_rewards[a]) = 2
           /\ mc_rewards[a][1] # mc_rewards[a][2]

\* C20: the exploration policy never selects an action that has visits while
\* an action of the node has none, and of equally ranked actions it selects
\* the one of lowest index.
C20_UnvisitedFirst ==
    (component = "mcts" /\ mc_pc = "backup") =>
        /\ (\E i \in 1..Len(Q) : actionVisits[i] = 0) =>
               /\ actionVisits[mc_selected] = 0
               /\ \A j \in 1..(mc_selected - 1) : actionVisits[j] # 0
        /\ (\A i \in 1..Len(Q) : actionVisits[i] > 0) =>
               /\ \A j \in 1..Len(Q) : ~ScoreLt(Q, actionVisits, visits, mc_selected, j)
               /\ \A j \in 1..(mc_selected - 1) :
                      ScoreLt(Q, actionVisits, visits, j, mc_selected)

\* An action with a positive Q has visits, another has none, and the one
\* without visits is selected.
C20_Witness ==
    /\ component = "mcts"
    /\ mc_pc = "backup"
    /\ actionVisits[mc_selected] = 0
    /\ \E i \in 1..Len(Q) : actionVisits[i] > 0 /\ Q[i][1] > 0

\* C21: reaching a node with no applicable action does not abort the search:
\* the iteration backs up the fixed low reward for the pair that led there,
\* and the search goes on to its end and gives a recommendation.
C21_DeadEndBacksUpLowReward ==
    /\ [][(mc_pc = "backup" /\ mc_selected \in mc_dead /\ mc_pc' # mc_pc) =>
             /\ mc_pc' = "select"
             /\ mc_rewards'[mc_selected] = Append(mc_rewards[mc_selected], DeadEndReward)
             /\ visits' = visits + 1]_vars
    /\ (component = "mcts" /\ mc_pc = "backup" /\ mc_selected \in mc_dead)
           ~> (mc_pc = "done" /\ mc_recommendation # None)

\* A finished search that went into a dead end more than once.
C21_Witness ==
    /\ component = "mcts"
    /\ mc_pc = "done"
    /\ mc_recommendation # None
    /\ \E a \in mc_dead : actionVisits[a] > 1

\* C22: the search ends only between iterations: an iteration that started
\* ends with its backup, and at the end every selected pair has had its
\* reward backed up and the statistics agree.
C22_EndsOnlyBetweenIterations ==
    /\ []((component = "mcts" /\ mc_pc = "done") =>
             /\ mc_selections = actionVisits
             /\ \A a \in 1..Len(Q) : Len(mc_rewards[a]) = mc_selections[a]
             /\ visits = SumOf(actionVisits))
    /\ (component = "mcts" /\ mc_pc = "backup") ~> (mc_pc = "select")

\* A search that ended at a deadline, before its budget, after an iteration.
C22_Witness ==
    /\ component = "mcts"
    /\ mc_pc = "done"
    /\ visits > 0
    /\ visits < MaxIterations

SpecMacroActionFair ==
    SpecMacroAction /\ WF_vars(ma_next_action(TRUE)) /\ WF_vars(ma_done(TRUE))

\* C25: for a closed-loop macro action whose maneuvers each report done
\* after finitely many steps, repeated next_action calls eventually make
\* MacroAction.done return true.
C25_ClosedLoopCompletes ==
    (component = "macro_action" /\ ~open_loop)
        ~> (ma_ret.op = "done" /\ ma_ret.result = "True")

\* C28: the switch-lane ManeuverConfig built by ChangeLane has kind
\* "switch-left" when the change is to the left and "switch-right" when it is
\* to the right, matching the SwitchLaneLeft / SwitchLaneRight maneuver
\* constructed from it.
C28_SwitchKindMatchesSide ==
    component = "change_lane" =>
        \A i \in 1..Len(cl_maneuvers) :
            /\ cl_maneuvers[i].cls = "SwitchLaneLeft" =>
                   cl_in.left /\ cl_maneuvers[i].type = "switch-left"
            /\ cl_maneuvers[i].cls = "SwitchLaneRight" =>
                   ~cl_in.left /\ cl_maneuvers[i].type = "switch-right"

(***************************************************************************)
(*                      MacroAction.get_trajectory                         *)
(***************************************************************************)
MaxManeuvers == 3
MaxSamples == 3

\* The trajectory of the i-th maneuver with len samples: sample k of its path
\* is <<"p", i, k>> and of its velocity <<"v", i, k>>.
TrajectoryOf(i, len) ==
    [path |-> [k \in 1..len |-> <<"p", i, k>>],
     velocity |-> [k \in 1..len |-> <<"v", i, k>>]]

\* The maneuver lists, by the number of samples of each maneuver.
SampleCounts == UNION {[1..n -> 1..MaxSamples] : n \in 0..MaxManeuvers}
TrInputs ==
    {[open_loop |-> ol, maneuvers |-> [i \in 1..Len(c) |-> TrajectoryOf(i, c[i])]] :
        ol \in BOOLEAN, c \in SampleCounts}

\* Lines 133-134 appending the whole array
AppendedWhole(array, more) ==
    IF array = None THEN Some(more) ELSE Some(array[1] \o more)

\* Lines 133-134: x if array is None else np.append(array, x[1:], axis=0)
Appended(array, more) ==
    IF array = None THEN Some(more) ELSE Some(array[1] \o Tail(more))

TrInit ==
    /\ component = "get_trajectory"
    /\ tr_in \in TrInputs
    /\ tr_pc = "get_trajectory"
    /\ tr_pending = <<>>
    /\ points = None
    /\ velocity = None
    /\ NodeIdle /\ ClIdle /\ MaIdle /\ VaIdle /\ PfIdle /\ NlIdle /\ GaIdle /\ PaIdle /\ McIdle /\ TaIdle /\ SqIdle /\ TmIdle

\* Lines 124-130.  self._maneuvers is a list, never None (line 39).
tr_enter ==
    /\ component = "get_trajectory"
    /\ tr_pc = "get_trajectory"
    /\ IF ~tr_in.open_loop
       THEN tr_pc' = "ValueError" /\ UNCHANGED tr_pending
       ELSE tr_pc' = "for" /\ tr_pending' = tr_in.maneuvers
    /\ UNCHANGED <<notTr, tr_in, points, velocity>>

\* Lines 131-134: one iteration
tr_for ==
    /\ component = "get_trajectory"
    /\ tr_pc = "for"
    /\ tr_pending # <<>>
    /\ points' = Appended(points, Head(tr_pending).path)
    /\ velocity' = Appended(velocity, Head(tr_pending).velocity)
    /\ tr_pending' = Tail(tr_pending)
    /\ UNCHANGED <<notTr, tr_in, tr_pc>>

\* Line 135
tr_return ==
    /\ component = "get_trajectory"
    /\ tr_pc = "for"
    /\ tr_pending = <<>>
    /\ tr_pc' = "returned"
    /\ UNCHANGED <<notTr, tr_in, tr_pending, points, velocity>>

TrNext == tr_enter \/ tr_for \/ tr_return

SpecGetTrajectory == TrInit /\ [][TrNext]_vars

\* The samples of maneuvers i..n of a list in order, the first sample of each
\* but the first maneuver left out.
RECURSIVE JoinedFrom(_, _, _)
JoinedFrom(mans, i, field) ==
    IF i > Len(mans) THEN <<>>
    ELSE (IF i = 1 THEN mans[i][field] ELSE Tail(mans[i][field]))
             \o JoinedFrom(mans, i + 1, field)

RECURSIVE TotalSamples(_)
TotalSamples(mans) ==
    IF mans = <<>> THEN 0 ELSE Len(Head(mans).path) + TotalSamples(Tail(mans))

\* C23: for an open-loop macro action with maneuvers m1..mn, get_trajectory
\* returns the path of m1 followed by the path of each later maneuver without
\* its first sample, and the velocities likewise, both of length
\* sum(len(mi)) - (n - 1); for a closed-loop one it raises ValueError and
\* returns no trajectory.
C23_TrajectoryIsJoinedManeuvers ==
    /\ (component = "get_trajectory" /\ tr_pc = "returned" /\ tr_in.maneuvers # <<>>) =>
           /\ tr_in.open_loop
           /\ points = Some(JoinedFrom(tr_in.maneuvers, 1, "path"))
           /\ velocity = Some(JoinedFrom(tr_in.maneuvers, 1, "velocity"))
           /\ Len(points[1]) = TotalSamples(tr_in.maneuvers) - (Len(tr_in.maneuvers) - 1)
           /\ Len(velocity[1]) = Len(points[1])
    /\ (component = "get_trajectory" /\ ~tr_in.open_loop /\ tr_pc # "get_trajectory") =>
           /\ tr_pc = "ValueError"
           /\ points = None /\ velocity = None

\* A trajectory joined from three maneuvers of more than one sample each.
C23_Witness ==
    /\ component = "get_trajectory"
    /\ tr_pc = "returned"
    /\ Len(tr_in.maneuvers) = 3
    /\ \A i \in 1..3 : Len(tr_in.maneuvers[i].path) > 1

(***************************************************************************)
(*                           TrajectoryAgent                               *)
(***************************************************************************)
\* The most samples of a trajectory, and the most calls that step the cursor.
MaxPath == 3
MaxSteps == 4

\* A trajectory is told from another by its number of samples.
Trajectories == 1..MaxPath

\* TrajectoryAgent.__init__ (lines 118-125) and Agent.__init__
TaInit ==
    /\ component = "trajectory_agent"
    /\ ta_open_loop \in BOOLEAN
    /\ ta_t = 0
    /\ ta_trajectory = None
    /\ ta_alive = TRUE
    /\ ta_vehicle = "new"
    /\ ta_maneuver_config = None
    /\ ta_maneuver = None
    /\ ta_ret = [op |-> "init", result |-> "ok"]
    /\ NodeIdle /\ ClIdle /\ MaIdle /\ VaIdle /\ PfIdle /\ NlIdle /\ GaIdle /\ PaIdle /\ McIdle /\ TrIdle /\ SqIdle /\ TmIdle

\* Lines 129-133.  near: the observed position is within 0.5 of the last
\* point of the path.
DoneValue(near) ==
    IF ta_open_loop THEN ta_t = ta_trajectory[1] - 1 ELSE near

\* Lines 135-136
AliveAfterDone(near) == IF ta_alive /\ DoneValue(near) THEN FALSE ELSE ta_alive

\* set_trajectory (lines 186-199) assigns self._trajectory only.
CursorAfterSet(t) == t

\* TrajectoryAgent.set_trajectory (lines 184-199)
ta_set_trajectory(new_trajectory) ==
    /\ component = "trajectory_agent"
    /\ ta_trajectory' = Some(new_trajectory)
    /\ ta_t' = CursorAfterSet(ta_t)
    /\ ta_ret' = [op |-> "set_trajectory", result |-> "ok"]
    /\ UNCHANGED <<notTa, ta_open_loop, ta_alive, ta_vehicle, ta_maneuver_config, ta_maneuver>>

\* TrajectoryAgent.done (lines 127-137); self._trajectory.path of None raises.
ta_done(near) ==
    /\ component = "trajectory_agent"
    /\ IF ta_trajectory = None
       THEN /\ ta_ret' = [op |-> "done", result |-> "AttributeError"]
            /\ UNCHANGED ta_alive
       ELSE /\ ta_alive' = AliveAfterDone(near)
            /\ ta_ret' = [op |-> "done", result |-> IF DoneValue(near) THEN "True" ELSE "False"]
    /\ UNCHANGED <<notTa, ta_open_loop, ta_t, ta_trajectory, ta_vehicle, ta_maneuver_config,
                   ta_maneuver>>

\* Lines 147-158 of next_action, after done has returned False: the cursor
\* steps, then the sample at the cursor is read (open loop) or the maneuver
\* is made if there is none and asked for its action (closed loop).
StepsCursor(op, ok) ==
    /\ ta_t' = ta_t + 1
    /\ IF ta_open_loop
       THEN /\ ta_ret' = [op |-> op,
                          result |-> IF ta_t + 1 <= ta_trajectory[1] - 1 THEN ok
                                     ELSE "IndexError"]
            /\ UNCHANGED <<ta_maneuver_config, ta_maneuver>>
       ELSE /\ IF ta_maneuver = None
               THEN /\ ta_maneuver_config' = ta_trajectory
                    /\ ta_maneuver' = ta_trajectory
               ELSE UNCHANGED <<ta_maneuver_config, ta_maneuver>>
            /\ ta_ret' = [op |-> op, result |-> ok]

\* TrajectoryAgent.next_action (lines 139-160)
ta_next_action(near) ==
    /\ component = "trajectory_agent"
    /\ ta_t < MaxSteps
    /\ IF ta_trajectory = None
       THEN /\ ta_ret' = [op |-> "next_action", result |-> "AssertionError"]
            /\ UNCHANGED <<ta_t, ta_alive, ta_maneuver_config, ta_maneuver>>
       ELSE /\ ta_alive' = AliveAfterDone(near)
            /\ IF DoneValue(near)
               THEN /\ ta_ret' = [op |-> "next_action", result |-> "None"]
                    /\ UNCHANGED <<ta_t, ta_maneuver_config, ta_maneuver>>
               ELSE StepsCursor("next_action", "Action")
    /\ UNCHANGED <<notTa, ta_open_loop, ta_trajectory, ta_vehicle>>

\* TrajectoryAgent.next_state (lines 162-182): done, then next_action, whose
\* own call of done on the same observation returns False again, then the
\* vehicle executes the action.
ta_next_state(near) ==
    /\ component = "trajectory_agent"
    /\ ta_t < MaxSteps
    /\ IF ta_trajectory = None
       THEN /\ ta_ret' = [op |-> "next_state", result |-> "AssertionError"]
            /\ UNCHANGED <<ta_t, ta_alive, ta_vehicle, ta_maneuver_config, ta_maneuver>>
       ELSE /\ ta_alive' = AliveAfterDone(near)
            /\ IF DoneValue(near)
               THEN /\ ta_ret' = [op |-> "next_state", result |-> "AgentState"]
                    /\ UNCHANGED <<ta_t, ta_vehicle, ta_maneuver_config, ta_maneuver>>
               ELSE /\ StepsCursor("next_state", "AgentState")
                    /\ ta_vehicle' = IF ta_ret'.result = "IndexError" THEN ta_vehicle
                                      ELSE "used"
    /\ UNCHANGED <<notTa, ta_open_loop, ta_trajectory>>

\* TrajectoryAgent.reset (lines 201-205) and Agent.reset (lines 58-61);
\* _init_vehicle (lines 207-212) makes a new vehicle.
ta_reset ==
    /\ component = "trajectory_agent"
    /\ ta_alive' = TRUE
    /\ ta_vehicle' = "new"
    /\ ta_t' = 0
    /\ ta_trajectory' = None
    /\ ta_ret' = [op |-> "reset", result |-> "ok"]
    /\ UNCHANGED <<notTa, ta_open_loop, ta_maneuver_config, ta_maneuver>>

TaNext ==
    \/ \E new_trajectory \in Trajectories : ta_set_trajectory(new_trajectory)
    \/ \E near \in BOOLEAN : ta_done(near)
    \/ \E near \in BOOLEAN : ta_next_action(near)
    \/ \E near \in BOOLEAN : ta_next_state(near)
    \/ ta_reset

SpecTrajectoryAgent == TaInit /\ [][TaNext]_vars

\* C26: for an open-loop TrajectoryAgent, after any sequence of
\* set_trajectory, done, next_action, next_state and reset calls, whenever a
\* trajectory is set the cursor satisfies 0 <= _t <= len(path) - 1, and no
\* call reads a sample outside the trajectory.
C26_CursorInsideTrajectory ==
    (component = "trajectory_agent" /\ ta_open_loop /\ ta_trajectory # None) =>
        /\ 0 <= ta_t /\ ta_t <= ta_trajectory[1] - 1
        /\ ta_ret.result # "IndexError"

\* C27: TrajectoryAgent.reset returns the agent to its just-constructed
\* state: alive, cursor 0, no trajectory, a new vehicle, and no closed-loop
\* maneuver or maneuver config of an earlier trajectory.
C27_ResetIsConstructed ==
    (component = "trajectory_agent" /\ ta_ret.op = "reset") =>
        /\ ta_alive
        /\ ta_t = 0
        /\ ta_trajectory = None
        /\ ta_vehicle = "new"
        /\ ta_maneuver_config = None
        /\ ta_maneuver = None

(***************************************************************************)
(*                     ChangeLane._get_lane_sequence                       *)
(***************************************************************************)
MaxThreshold == 3

\* The lanes of the map; the walk starts in lane 1, and the lanes that
\* succeed a lane are among the later ones.
SequenceLanes == {1, 2, 3}
SequenceSuccessorLanes == {2, 3}
SequenceLaneLength == <<2, 1, 2>>

\* link.successor of a lane: None, or a list of none, one or several lanes.
SequenceSuccessorLists == {None, Some(<<>>), Some(<<2>>), Some(<<3>>), Some(<<2, 3>>)}

\* successor: each lane's link.successor; has_target: the lanes for which
\* _get_target_lane finds a lane with id other than 0; adjacent: the lanes for
\* which get_adjacent_lanes(s, True, True) is not empty; roundabout: the lanes
\* whose parent road is in a roundabout.
SqInputs ==
    [pos : {0, 1}, threshold : {0, MaxThreshold},
     successor : [SequenceLanes -> SequenceSuccessorLists],
     has_target : SUBSET SequenceLanes,
     adjacent : SUBSET SequenceSuccessorLanes,
     roundabout : SUBSET SequenceLanes]

\* The lane _get_target_lane finds beside a lane (lines 379-382)
TargetLane(lane) == 10 + lane

\* Line 407: the successors with adjacent lanes
PossibleLanes(in, successors) == SelectSeq(successors, LAMBDA l : l \in in.adjacent)

\* Lines 414-420: the first possible lane on a roundabout road, or None
RECURSIVE FirstInRoundabout(_, _)
FirstInRoundabout(in, lanes) ==
    IF lanes = <<>> THEN 0
    ELSE IF Head(lanes) \in in.roundabout THEN Head(lanes)
    ELSE FirstInRoundabout(in, Tail(lanes))

\* Lines 397-420: current_lane after the if / elif chain.  No branch is taken
\* for an empty list of successors, nor for several possible lanes outside a
\* roundabout: current_lane keeps its value.
NextCurrentLane(in, lane) ==
    LET successors == in.successor[lane]
    IN  IF successors = None THEN 0
        ELSE IF Len(successors[1]) = 1 THEN successors[1][1]
        ELSE IF Len(successors[1]) > 1
        THEN LET possible_lanes == PossibleLanes(in, successors[1])
             IN  IF Len(possible_lanes) = 0 THEN 0
                 ELSE IF Len(possible_lanes) = 1 THEN possible_lanes[1]
                 ELSE IF lane \in in.roundabout THEN FirstInRoundabout(in, possible_lanes)
                 ELSE lane
        ELSE lane

\* Lines 386-387
SqInit ==
    /\ component = "get_lane_sequence"
    /\ sq_in \in SqInputs
    /\ sq_pc = "while"
    /\ sq_current_lane = 1
    /\ sq_distance = -sq_in.pos
    /\ sq_ls = <<>>
    /\ NodeIdle /\ ClIdle /\ MaIdle /\ VaIdle /\ PfIdle /\ NlIdle /\ GaIdle /\ PaIdle /\ McIdle /\ TrIdle /\ TaIdle /\ TmIdle

\* Lines 388-420: the test of the while loop and one iteration; line 421.
sq_while ==
    /\ component = "get_lane_sequence"
    /\ sq_pc = "while"
    /\ IF sq_current_lane = 0 \/ sq_distance > sq_in.threshold
       THEN /\ sq_pc' = "returned"
            /\ UNCHANGED <<sq_current_lane, sq_distance, sq_ls>>
       ELSE /\ sq_distance' = sq_distance + SequenceLaneLength[sq_current_lane]
            /\ IF sq_current_lane \notin sq_in.has_target
               THEN /\ sq_pc' = "returned"
                    /\ UNCHANGED <<sq_current_lane, sq_ls>>
               ELSE /\ sq_ls' = Append(sq_ls, TargetLane(sq_current_lane))
                    /\ sq_current_lane' = NextCurrentLane(sq_in, sq_current_lane)
                    /\ UNCHANGED sq_pc
    /\ UNCHANGED <<notSq, sq_in>>

SqNext == sq_while

SpecLaneSequence == SqInit /\ [][SqNext]_vars

\* The lanes of link.successor of a lane
SuccessorsOf(in, lane) ==
    IF in.successor[lane] = None THEN {}
    ELSE {in.successor[lane][1][i] : i \in 1..Len(in.successor[lane][1])}

\* C29: every iteration of ChangeLane._get_lane_sequence either stops the
\* walk or moves to a successor of the current lane, for every successor
\* topology; so the returned sequence never lists the target lane of the same
\* current lane twice in a row.
C29_WalkStopsOrMoves ==
    /\ [][(sq_while /\ sq_pc' = "while") =>
             \/ sq_current_lane' = 0 \/ sq_distance' > sq_in.threshold
             \/ sq_current_lane' \in SuccessorsOf(sq_in, sq_current_lane)]_vars
    /\ [](component = "get_lane_sequence" =>
             \A i \in 1..(Len(sq_ls) - 1) : sq_ls[i] # sq_ls[i + 1])

(***************************************************************************)
(*                            TrafficManager                               *)
(***************************************************************************)
\* The largest number of agents to maintain, and the most agent ids given out.
MaxAgents == 3
MaxSpawned == 6

\* Line 42: the agents that are not None
AgentsExisting(agents) == Cardinality({i \in 1..Len(agents) : agents[i]})

\* Line 44: range(self.__n_agents - agents_existing + 1)
SpawnAttempts(n_agents, agents_existing) == n_agents - agents_existing + 1

\* TrafficManager.__init__ (lines 31-37) with the n_agents given, or
\* set_agents_count (lines 127-130) called before the first update.
TmInit ==
    /\ component = "traffic_manager"
    /\ tm_n_agents \in 0..MaxAgents
    /\ tm_agents = <<>>
    /\ NodeIdle /\ ClIdle /\ MaIdle /\ VaIdle /\ PfIdle /\ NlIdle /\ GaIdle /\ PaIdle /\ McIdle /\ TrIdle /\ TaIdle /\ SqIdle

\* TrafficManager.update (lines 39-45).  spawned: the calls of __spawn_agent
\* (lines 74-121) that spawn a vehicle; the others give up after ten tries
\* (lines 98-100).  A new agent gets an id above all ids in use (lines 76-79).
tm_update(spawned) ==
    /\ component = "traffic_manager"
    /\ IF AgentsExisting(tm_agents) < tm_n_agents
       THEN /\ spawned <= SpawnAttempts(tm_n_agents, AgentsExisting(tm_agents))
            /\ Len(tm_agents) + spawned <= MaxSpawned
            /\ tm_agents' = tm_agents \o [i \in 1..spawned |-> TRUE]
       ELSE /\ spawned = 0
            /\ UNCHANGED tm_agents
    /\ UNCHANGED <<notTm, tm_n_agents>>

\* TrafficManager.__remove_agent (lines 123-125), called by take_actions for
\* an agent outside the spawn radius (lines 56-58)
tm_remove_agent(agent_id) ==
    /\ component = "traffic_manager"
    /\ agent_id \in 1..Len(tm_agents)
    /\ tm_agents[agent_id]
    /\ tm_agents' = [tm_agents EXCEPT ![agent_id] = FALSE]
    /\ UNCHANGED <<notTm, tm_n_agents>>

TmNext ==
    \/ \E spawned \in 0..(MaxAgents + 1) : tm_update(spawned)
    \/ \E agent_id \in 1..MaxSpawned : tm_remove_agent(agent_id)

SpecTrafficManager == TmInit /\ [][TmNext]_vars

\* C30: after any sequence of TrafficManager.update calls and agent
\* removals, the number of live (non-None) managed agents never exceeds
\* n_agents.
C30_AtMostNAgents ==
    component = "traffic_manager" => AgentsExisting(tm_agents) <= tm_n_agents

(***************************************************************************)
(* The whole model: a behaviour runs one of the components.                *)
(***************************************************************************)
Init == NodeInit \/ ClInit \/ MaInit \/ VaInit \/ PfInit \/ NlInit \/ GaInit \/ PaInit \/ McInit \/ TrInit \/ TaInit \/ SqInit
            \/ TmInit

Next == NodeNext \/ ClNext \/ MaNext \/ VaNext \/ PfNext \/ NlNext \/ GaNext \/ PaNext \/ McNext \/ TrNext
            \/ TaNext \/ SqNext \/ TmNext

Spec == Init /\ [][Next]_vars

====
